---- MODULE Spec2Model ----
(***************************************************************************)
(* Batch document-processing pipeline of the TechMatch OCR+LLM API:        *)
(* app/api.py process_batch and the OCR / NLP services it drives.          *)
(*                                                                         *)
(* Text is modelled at character level: a text is a sequence of one-       *)
(* character strings, a byte payload a sequence of bytes, where BadByte    *)
(* stands for a byte sequence that is not valid UTF-8.  A Python Optional  *)
(* is a sequence of length 0 (None) or 1 (the value).  A float score is an *)
(* exact rational [n, d].                                                  *)
(***************************************************************************)
EXTENDS Integers, Sequences, FiniteSets, TLC

\* ------------------------------------------------------------------ bounds
MaxDocs == 3
MaxLangDocs == 2

\* ------------------------------------------------------- Optional values
None == <<>>
Some(x) == <<x>>
IsNone(o) == Len(o) = 0
IsSome(o) == Len(o) = 1
Get(o) == o[1]

EmptyMap == [k \in {} |-> 0]

\* ------------------------------------------------------------ characters
BadByte == "BAD"
Whitespace == {" ", "\n"}
SentenceEnd == {".", "!", "?"}
WordChars == {"a", "b", "c", "d", "A"}

\* str.lower on one character
UpperLetters == <<"A", "B", "C", "D", "E", "F", "G", "H", "I", "J", "K", "L", "M", "N",
                  "O", "P", "Q", "R", "S", "T", "U", "V", "W", "X", "Y", "Z">>
LowerLetters == <<"a", "b", "c", "d", "e", "f", "g", "h", "i", "j", "k", "l", "m", "n",
                  "o", "p", "q", "r", "s", "t", "u", "v", "w", "x", "y", "z">>

Lower(c) ==
    IF \E i \in 1..Len(UpperLetters) : UpperLetters[i] = c
    THEN LowerLetters[CHOOSE i \in 1..Len(UpperLetters) : UpperLetters[i] = c]
    ELSE c

\* str.lower
LowerStr(s) == [i \in 1..Len(s) |-> Lower(s[i])]

RECURSIVE LStrip(_)
LStrip(s) ==
    IF s # <<>> /\ Head(s) \in Whitespace THEN LStrip(Tail(s)) ELSE s

RECURSIVE RStrip(_)
RStrip(s) ==
    IF s # <<>> /\ s[Len(s)] \in Whitespace
    THEN RStrip(SubSeq(s, 1, Len(s) - 1)) ELSE s

\* str.strip
Strip(s) == LStrip(RStrip(s))

\* the positions of s that hold a character of seps, in increasing order
SeparatorPositions(s, seps) ==
    SelectSeq([i \in 1..Len(s) |-> i], LAMBDA i : s[i] \in seps)

\* pieces of s between the characters of seps (empty pieces included)
SplitOn(s, seps) ==
    LET cuts == <<0>> \o SeparatorPositions(s, seps) \o <<Len(s) + 1>>
    IN  [k \in 1..(Len(cuts) - 1) |-> SubSeq(s, cuts[k] + 1, cuts[k + 1] - 1)]

NonEmpty(p) == p # <<>>

\* str.split(): the maximal runs of non-whitespace characters
SplitWords(s) == SelectSeq(SplitOn(s, Whitespace), NonEmpty)

\* [s.strip() for s in pieces if s.strip()]
StripKeep(pieces) ==
    LET stripped == [i \in 1..Len(pieces) |-> Strip(pieces[i])]
    IN  SelectSeq(stripped, NonEmpty)

Range(s) == {s[i] : i \in 1..Len(s)}

RECURSIVE JoinWith(_, _)
JoinWith(parts, sep) ==
    IF parts = <<>> THEN <<>>
    ELSE IF Len(parts) = 1 THEN parts[1]
    ELSE parts[1] \o sep \o JoinWith(Tail(parts), sep)

\* c * n
Repeated(c, n) == [i \in 1..n |-> c]

\* ------------------------------------------------------ rational scores
Rat(n, d) == [n |-> n, d |-> d]
Zero == Rat(0, 1)
One == Rat(1, 1)
RLt(a, b) == a.n * b.d < b.n * a.d
RGt(a, b) == RLt(b, a)
RLe(a, b) == ~RLt(b, a)
REq(a, b) == a.n * b.d = b.n * a.d

Max2(a, b) == IF a >= b THEN a ELSE b

Min2(a, b) == IF a <= b THEN a ELSE b

\* list.sort(key=..., reverse=True): descending by key, equal keys keep their
\* original relative order (the sort is stable, also with reverse=True)
\* (keys[i] is the key of seq[i])
StableSortDesc(seq, keys) ==
    LET n == Len(seq)
        pos(i) == 1 + Cardinality({j \in 1..n : RGt(keys[j], keys[i])})
                    + Cardinality({j \in 1..(i - 1) : REq(keys[j], keys[i])})
    IN  [p \in 1..n |-> seq[CHOOSE i \in 1..n : pos(i) = p]]

RAdd(a, b) == Rat(a.n * b.d + b.n * a.d, a.d * b.d)
RMin(a, b) == IF RLt(b, a) THEN b ELSE a

\* f"{similarity_score:.2f}": the score in hundredths, rounded to nearest,
\* ties to even
Fmt2(score) ==
    LET q == (100 * score.n) \div score.d
        r == (100 * score.n) % score.d
    IN  IF 2 * r > score.d THEN q + 1
        ELSE IF 2 * r = score.d THEN q + (q % 2)
        ELSE q

\* ------------------------------------------------------------- NLPService
SummaryMax == 500
Ellipsis == <<".", ".", ".">>

\* text[:n] + "..." if len(text) > n else text
Truncate(text, n) ==
    IF Len(text) > n THEN SubSeq(text, 1, n) \o Ellipsis ELSE text

\* NLPService._split_sentences: re.split(r'[.!?]+', text), pieces stripped,
\* empty ones dropped (splitting at every terminator instead of at every run
\* of terminators only adds empty pieces, which are dropped)
split_sentences(text) == StripKeep(SplitOn(text, SentenceEnd))

\* summarize_text returning the joined sentences uncut
summarize_text_uncut(text) ==
    LET sentences == split_sentences(text)
        n == Len(sentences)
    IN  IF n <= 3 THEN Truncate(text, SummaryMax)
        ELSE JoinWith(<<sentences[1], sentences[2], sentences[n]>>, <<" ">>)

\* NLPService.summarize_text
summarize_text(text) ==
    LET sentences == split_sentences(text)
        n == Len(sentences)
    IN  IF n <= 3 THEN Truncate(text, SummaryMax)
        ELSE Truncate(JoinWith(<<sentences[1], sentences[2], sentences[n]>>, <<" ">>),
                      SummaryMax)

\* TfidfVectorizer(lowercase=True) tokens: the runs of two or more word
\* characters of the lower-cased text
Separators == Whitespace \cup SentenceEnd
IsToken(w) == Len(w) >= 2
Tokens(text) == SelectSeq(SplitOn(LowerStr(text), Separators), IsToken)

Count(seq, w) == Cardinality({i \in 1..Len(seq) : seq[i] = w})

\* the two term-frequency vectors are proportional (cosine 1 up to rounding)
Proportional(a, b) ==
    /\ Range(a) = Range(b)
    /\ \A w \in Range(a) : \A v \in Range(a) :
          Count(a, w) * Count(b, v) = Count(a, v) * Count(b, w)

\* Values cosine_similarity can return for two TF-IDF rows that are neither
\* orthogonal nor proportional
CosineValues == {Rat(2, 5), Rat(7, 10), Rat(3, 4)}

\* Two proportional rows of two or more terms: each row is L2-normalised by
\* TfidfVectorizer and again by cosine_similarity, and the dot product of the
\* rounded rows is 1.0 or the next double above it (1.0000000000000002,
\* written here with a denominator that fits the integer width)
OneUlpAbove == Rat(4097, 4096)

\* cosine of the TF-IDF rows of query and text, the vocabulary being non-empty
CosineOutcomes(query, text) ==
    LET q == Tokens(query)
        t == Tokens(text)
    IN  IF Range(q) \cap Range(t) = {} THEN {Zero}
        ELSE IF Proportional(q, t)
             THEN IF Cardinality(Range(q)) = 1 THEN {One} ELSE {One, OneUlpAbove}
             ELSE CosineValues

\* fit_transform raises ValueError("empty vocabulary") when no text has a token
EmptyVocabulary(all_texts) == \A i \in 1..Len(all_texts) : Tokens(all_texts[i]) = <<>>

\* the except branch of calculate_similarity: word-overlap ratio
WordSet(text) == Range(SplitWords(LowerStr(text)))

\* the word-overlap ratio with min(...) in place of max(...) in the denominator
OverlapRatioMin(query, text) ==
    LET query_words == WordSet(query)
        text_words == WordSet(text)
        common_words == query_words \cap text_words
        den == Max2(Min2(Cardinality(query_words), Cardinality(text_words)), 1)
        similarity == Rat(Cardinality(common_words), den)
    IN  IF RLt(similarity, One) THEN similarity ELSE One

OverlapRatio(query, text) ==
    LET query_words == WordSet(query)
        text_words == WordSet(text)
        common_words == query_words \cap text_words
        den == Max2(Max2(Cardinality(query_words), Cardinality(text_words)), 1)
        similarity == Rat(Cardinality(common_words), den)
    IN  IF RLt(similarity, One) THEN similarity ELSE One

\* characters that are not word characters (\w) for the regular expression
NonWordChars == Separators \cup {",", "-"}

\* the character class [a-záàâãéêíóôõúç]
KeywordLetters ==
    {"a", "b", "c", "d", "e", "f", "g", "h", "i", "j", "k", "l", "m", "n",
      "o", "p", "q", "r", "s", "t", "u", "v", "w", "x", "y", "z", "á", "à", "â", "ã", "é", "ê", "í", "ó", "ô", "õ", "ú", "ç"}

\* re.findall(r'\b[a-záàâãéêíóôõúç]{3,}\b', text.lower()): the maximal runs of
\* word characters that consist of three or more letters of the class
IsKeywordToken(w) == Len(w) >= 3 /\ \A i \in 1..Len(w) : w[i] \in KeywordLetters
KeywordTokens(text) == SelectSeq(SplitOn(LowerStr(text), NonWordChars), IsKeywordToken)

stop_words ==
    {<<"q", "u", "e">>, <<"p", "a", "r", "a">>, <<"c", "o", "m">>, <<"u", "m", "a">>,
     <<"p", "o", "r">>, <<"s", "ã", "o">>, <<"d", "o", "s">>, <<"d", "a", "s">>,
     <<"c", "o", "m", "o">>, <<"m", "a", "i", "s">>, <<"f", "o", "i">>,
     <<"s", "e", "r">>, <<"t", "e", "m">>, <<"t", "e", "r">>, <<"s", "e", "u">>,
     <<"s", "u", "a">>, <<"s", "e", "u", "s">>, <<"s", "u", "a", "s">>,
     <<"e", "s", "t", "e">>, <<"e", "s", "t", "a">>, <<"e", "s", "t", "e", "s">>,
     <<"e", "s", "t", "a", "s">>, <<"i", "s", "s", "o">>, <<"i", "s", "t", "o">>,
     <<"a", "q", "u", "i">>, <<"a", "l", "i">>, <<"o", "n", "d", "e">>,
     <<"q", "u", "a", "n", "d", "o">>, <<"p", "o", "r", "q", "u", "e">>,
     <<"m", "a", "s">>, <<"t", "a", "m", "b", "é", "m">>, <<"a", "i", "n", "d", "a">>,
     <<"a", "p", "e", "n", "a", "s">>, <<"m", "u", "i", "t", "o">>, <<"b", "e", "m">>,
     <<"t", "o", "d", "o">>, <<"t", "o", "d", "a">>, <<"t", "o", "d", "o", "s">>,
     <<"t", "o", "d", "a", "s">>, <<"o", "u", "t", "r", "o">>,
     <<"o", "u", "t", "r", "a">>, <<"o", "u", "t", "r", "o", "s">>,
     <<"o", "u", "t", "r", "a", "s">>}

\* kept by the filter with len(word) >= 3 in place of len(word) > 3
KeptAsKeywordFrom3(w) == w \notin stop_words /\ Len(w) >= 3

\* word not in stop_words and len(word) > 3
KeptAsKeyword(w) == w \notin stop_words /\ Len(w) > 3

\* Counter(words).most_common(n): the distinct words by descending count,
\* equal counts in order of first occurrence, the first n of them
most_common(words, n) ==
    LET first == SelectSeq([i \in 1..Len(words) |-> i],
                           LAMBDA i : \A j \in 1..(i - 1) : words[j] # words[i])
        distinct == [k \in 1..Len(first) |-> words[first[k]]]
        counts == [k \in 1..Len(first) |-> Rat(Count(words, distinct[k]), 1)]
        ranked == StableSortDesc(distinct, counts)
    IN  SubSeq(ranked, 1, Min2(n, Len(ranked)))

\* NLPService.extract_keywords
extract_keywords(text, max_keywords) ==
    most_common(SelectSeq(KeywordTokens(text), KeptAsKeyword), max_keywords)

\* the lists whose i-th element is an element of sets[i]
RECURSIVE Lists(_)
Lists(sets) ==
    IF sets = <<>> THEN {<<>>}
    ELSE {<<h>> \o t : h \in Head(sets), t \in Lists(Tail(sets))}

\* NLPService.calculate_similarity: the lists it can return.  vectorizer_ok
\* is FALSE when the import of sklearn fails.
calculate_similarity(query, texts, vectorizer_ok) ==
    IF vectorizer_ok /\ ~EmptyVocabulary(<<query>> \o texts)
    THEN Lists([i \in 1..Len(texts) |-> CosineOutcomes(query, texts[i])])
    ELSE {[i \in 1..Len(texts) |-> OverlapRatio(query, texts[i])]}

MaxExcerpts == 3
ExcerptThreshold == Rat(1, 10)

AboveThreshold(p) == RGt(p.score, ExcerptThreshold)

\* the try branch of find_relevant_excerpts for given sentence similarities
TopExcerpts(sentences, similarities) ==
    LET sentence_scores == [i \in 1..Len(sentences) |->
                              [sentence |-> sentences[i], score |-> similarities[i]]]
        sorted == StableSortDesc(sentence_scores, similarities)
        top == SubSeq(sorted, 1, Min2(MaxExcerpts, Len(sorted)))
        kept == SelectSeq(top, AboveThreshold)
    IN  [i \in 1..Len(kept) |-> Strip(kept[i].sentence) \o <<".">>]

\* sentences = [s.strip() for s in text.split('.') if s.strip()]
excerpt_sentences(text) == StripKeep(SplitOn(text, {"."}))

\* NLPService.find_relevant_excerpts: the lists it can return.  The except
\* branch is not modelled: calculate_similarity handles its own failures and
\* nothing else in the try branch raises.
find_relevant_excerpts(query, text, vectorizer_ok) ==
    LET sentences == excerpt_sentences(text)
    IN  IF sentences = <<>> THEN {<<>>}
        ELSE {TopExcerpts(sentences, sims) :
                sims \in calculate_similarity(query, sentences, vectorizer_ok)}

\* keyword in text_lower
Contains(s, keyword) ==
    \E i \in 0..(Len(s) - Len(keyword)) : SubSeq(s, i + 1, i + Len(keyword)) = keyword

\* the category_patterns of categorize_text, in the order of the dict
category_patterns ==
   <<
      [category |-> "contrato",
       keywords |-> <<
          <<"c", "o", "n", "t", "r", "a", "t", "o">>,
          <<"a", "c", "o", "r", "d", "o">>,
          <<"p", "r", "e", "s", "t", "a", "ç", "ã", "o">>,
          <<"s", "e", "r", "v", "i", "ç", "o", "s">>,
          <<"c", "l", "á", "u", "s", "u", "l", "a">>,
          <<"p", "r", "a", "z", "o">>,
          <<"v", "a", "l", "o", "r">>,
          <<"p", "a", "g", "a", "m", "e", "n", "t", "o">> >>],
      [category |-> "relatório",
       keywords |-> <<
          <<"r", "e", "l", "a", "t", "ó", "r", "i", "o">>,
          <<"a", "n", "á", "l", "i", "s", "e">>,
          <<"d", "a", "d", "o", "s">>,
          <<"r", "e", "s", "u", "l", "t", "a", "d", "o">>,
          <<"c", "o", "n", "c", "l", "u", "s", "ã", "o">>,
          <<"p", "e", "r", "í", "o", "d", "o">>,
          <<"m", "e", "n", "s", "a", "l">>,
          <<"a", "n", "u", "a", "l">> >>],
      [category |-> "fatura",
       keywords |-> <<
          <<"f", "a", "t", "u", "r", "a">>,
          <<"n", "o", "t", "a", " ", "f", "i", "s", "c", "a", "l">>,
          <<"c", "o", "b", "r", "a", "n", "ç", "a">>,
          <<"v", "e", "n", "c", "i", "m", "e", "n", "t", "o">>,
          <<"t", "o", "t", "a", "l">>,
          <<"i", "m", "p", "o", "s", "t", "o">>,
          <<"d", "e", "s", "c", "o", "n", "t", "o">> >>],
      [category |-> "correspondência",
       keywords |-> <<
          <<"c", "a", "r", "t", "a">>,
          <<"e", "m", "a", "i", "l">>,
          <<"c", "o", "m", "u", "n", "i", "c", "a", "d", "o">>,
          <<"i", "n", "f", "o", "r", "m", "a", "m", "o", "s">>,
          <<"s", "o", "l", "i", "c", "i", "t", "a", "m", "o", "s">>,
          <<"a", "t", "e", "n", "c", "i", "o", "s", "a", "m", "e", "n", "t", "e">> >>],
      [category |-> "jurídico",
       keywords |-> <<
          <<"p", "r", "o", "c", "e", "s", "s", "o">>,
          <<"t", "r", "i", "b", "u", "n", "a", "l">>,
          <<"a", "d", "v", "o", "g", "a", "d", "o">>,
          <<"l", "e", "i">>,
          <<"a", "r", "t", "i", "g", "o">>,
          <<"c", "ó", "d", "i", "g", "o">>,
          <<"j", "u", "r", "i", "s", "p", "r", "u", "d", "ê", "n", "c", "i", "a">> >>],
      [category |-> "técnico",
       keywords |-> <<
          <<"e", "s", "p", "e", "c", "i", "f", "i", "c", "a", "ç", "ã", "o">>,
          <<"m", "a", "n", "u", "a", "l">>,
          <<"p", "r", "o", "c", "e", "d", "i", "m", "e", "n", "t", "o">>,
          <<"c", "o", "n", "f", "i", "g", "u", "r", "a", "ç", "ã", "o">>,
          <<"s", "i", "s", "t", "e", "m", "a">>,
          <<"s", "o", "f", "t", "w", "a", "r", "e">> >>],
      [category |-> "financeiro",
       keywords |-> <<
          <<"b", "a", "l", "a", "n", "ç", "o">>,
          <<"d", "e", "m", "o", "n", "s", "t", "r", "a", "t", "i", "v", "o">>,
          <<"r", "e", "c", "e", "i", "t", "a">>,
          <<"d", "e", "s", "p", "e", "s", "a">>,
          <<"l", "u", "c", "r", "o">>,
          <<"i", "n", "v", "e", "s", "t", "i", "m", "e", "n", "t", "o">> >>] >>

\* matches = sum(1 for keyword in keywords if keyword in text_lower)
Matches(s, keywords) ==
    Cardinality({k \in 1..Len(keywords) : Contains(LowerStr(s), keywords[k])})

\* round(min(0.95, matches / len(keywords)), 2)
CategoryConfidence(s, keywords) ==
    Rat(Fmt2(RMin(Rat(95, 100), Rat(Matches(s, keywords), Len(keywords)))), 100)

MaxCategories == 3

\* NLPService.categorize_text: the names of the (at most three) categories
\* with a keyword in the text, by descending confidence, ties in the order
\* of the dict; ["geral"] when no keyword occurs
categorize_text(s) ==
    LET hit == SelectSeq(category_patterns, LAMBDA c : Matches(s, c.keywords) > 0)
        keys == [i \in 1..Len(hit) |-> CategoryConfidence(s, hit[i].keywords)]
        ranked == StableSortDesc(hit, keys)
        top == SubSeq(ranked, 1, IF Len(ranked) < MaxCategories THEN Len(ranked)
                                   ELSE MaxCategories)
    IN  IF hit = <<>> THEN <<"geral">>
        ELSE [i \in 1..Len(top) |-> top[i].category]


\* the lexicons of analyze_sentiment
positive_words ==
    {<<"b", "o", "m">>,
     <<"ó", "t", "i", "m", "o">>,
     <<"e", "x", "c", "e", "l", "e", "n", "t", "e">>,
     <<"p", "o", "s", "i", "t", "i", "v", "o">>,
     <<"s", "u", "c", "e", "s", "s", "o">>,
     <<"q", "u", "a", "l", "i", "d", "a", "d", "e">>,
     <<"g", "a", "r", "a", "n", "t", "i", "a">>,
     <<"s", "a", "t", "i", "s", "f", "a", "ç", "ã", "o">>,
     <<"a", "p", "r", "o", "v", "a", "d", "o">>,
     <<"a", "c", "e", "i", "t", "o">>,
     <<"a", "c", "o", "r", "d", "o">>,
     <<"b", "e", "n", "e", "f", "í", "c", "i", "o">>,
     <<"v", "a", "n", "t", "a", "g", "e", "m">>,
     <<"l", "u", "c", "r", "o">>,
     <<"g", "a", "n", "h", "o">>}

negative_words ==
    {<<"r", "u", "i", "m">>,
     <<"p", "é", "s", "s", "i", "m", "o">>,
     <<"n", "e", "g", "a", "t", "i", "v", "o">>,
     <<"p", "r", "o", "b", "l", "e", "m", "a">>,
     <<"e", "r", "r", "o">>,
     <<"f", "a", "l", "h", "a">>,
     <<"d", "e", "f", "e", "i", "t", "o">>,
     <<"r", "e", "c", "l", "a", "m", "a", "ç", "ã", "o">>,
     <<"i", "n", "s", "a", "t", "i", "s", "f", "a", "ç", "ã", "o">>,
     <<"r", "e", "j", "e", "i", "t", "a", "d", "o">>,
     <<"c", "a", "n", "c", "e", "l", "a", "d", "o">>,
     <<"p", "e", "r", "d", "a">>,
     <<"p", "r", "e", "j", "u", "í", "z", "o">>,
     <<"d", "a", "n", "o">>}

\* any(entry in word for entry in lexicon)
HasAny(word, lexicon) == \E entry \in lexicon : Contains(word, entry)

\* sum(1 for word in words if any(entry in word for entry in lexicon))
Indicators(words, lexicon) ==
    Cardinality({i \in 1..Len(words) : HasAny(words[i], lexicon)})

\* 0.5 + difference / len(words), without the cap
SentimentConfidenceUncapped(difference, n) == RAdd(Rat(1, 2), Rat(difference, n))

\* min(0.9, 0.5 + difference / len(words))
SentimentConfidence(difference, n) ==
    RMin(Rat(9, 10), RAdd(Rat(1, 2), Rat(difference, n)))

\* NLPService.analyze_sentiment: the label, round(confidence, 2) in
\* hundredths, and the two counts. (The rounding of Fmt2 is that of
\* round(x, 2) wherever 100 * x is not halfway between two integers or x is
\* a binary fraction; the inputs of the model stay in that domain.)
analyze_sentiment(text) ==
    LET words == SplitWords(LowerStr(text))
        positive_count == Indicators(words, positive_words)
        negative_count == Indicators(words, negative_words)
        n == Len(words)
    IN  [sentiment |->
            IF positive_count > negative_count THEN "positive"
            ELSE IF negative_count > positive_count THEN "negative"
            ELSE "neutral",
         confidence |->
            IF positive_count > negative_count
            THEN Fmt2(SentimentConfidence(positive_count - negative_count, n))
            ELSE IF negative_count > positive_count
            THEN Fmt2(SentimentConfidence(negative_count - positive_count, n))
            ELSE Fmt2(Rat(1, 2)),
         positive_indicators |-> positive_count,
         negative_indicators |-> negative_count]


\* ------------------------------------------------------------- OCRService

Failed == [ok |-> FALSE, text |-> <<>>, confidence |-> Zero]
Extracted(text, confidence) == [ok |-> TRUE, text |-> text, confidence |-> confidence]

\* OCRService._extract_from_image.  media.ok and a page: Image.open accepts
\* the bytes; media.pages[1]: what pytesseract reads from the image, or its
\* failure.
extract_from_image(media) ==
    IF media.ok /\ media.pages # <<>> /\ media.pages[1].ocr_ok
    THEN LET text == media.pages[1].ocr
         IN  Extracted(text, RMin(Rat(9, 10), Rat(Len(Strip(text)), 500)))
    ELSE Extracted(<<>>, Zero)

\* one iteration of the page loop of _extract_from_pdf: ok is FALSE when
\* rasterising or recognising the page raises
PageResult(page) ==
    IF Strip(page.direct) # <<>> THEN Extracted(page.direct, Rat(95, 100))
    ELSE IF page.ocr_ok
         THEN Extracted(page.ocr, RMin(Rat(8, 10), Rat(Len(Strip(page.ocr)), 1000)))
         ELSE Failed

RECURSIVE SumConfidence(_)
SumConfidence(rs) ==
    IF rs = <<>> THEN Zero ELSE RAdd(Head(rs).confidence, SumConfidence(Tail(rs)))

\* _extract_from_pdf returning the total of the page confidences
extract_from_pdf_total(media) ==
    LET rs == [i \in 1..Len(media.pages) |-> PageResult(media.pages[i])]
    IN  IF media.ok /\ \A i \in 1..Len(rs) : rs[i].ok
        THEN Extracted(JoinWith([i \in 1..Len(rs) |-> rs[i].text], <<"\n", "\n">>),
                       RMin(One, SumConfidence(rs)))
        ELSE Extracted(<<>>, Zero)

\* OCRService._extract_from_pdf.  media.ok: fitz.open accepts the bytes.  An
\* exception in any page leaves the loop and is caught by the handler of the
\* whole function.
extract_from_pdf(media) ==
    LET rs == [i \in 1..Len(media.pages) |-> PageResult(media.pages[i])]
        page_count == Len(rs)
        total == SumConfidence(rs)
        avg == IF page_count > 0 THEN Rat(total.n, total.d * page_count) ELSE Zero
    IN  IF media.ok /\ \A i \in 1..Len(rs) : rs[i].ok
        THEN Extracted(JoinWith([i \in 1..Len(rs) |-> rs[i].text], <<"\n", "\n">>),
                       RMin(One, avg))
        ELSE Extracted(<<>>, Zero)

\* bytes.decode('utf-8', errors="ignore"): undecodable bytes are dropped
DecodeIgnore(content) == SelectSeq(content, LAMBDA b : b # BadByte)

\* base64.b64encode(content).decode("utf-8"): text that always decodes back
B64(data) == [valid |-> TRUE, data |-> data]

\* DocumentType
DocumentTypes == {"pdf", "image", "text", "docx", "doc"}

\* OCRService.extract_text_from_document without its except clause: an
\* exception of the body leaves the call (ok = FALSE)
extract_text_from_document_unguarded(content, media, document_type) ==
    IF ~content.valid THEN Failed
    ELSE IF document_type = "pdf" THEN extract_from_pdf(media)
    ELSE IF document_type = "image" THEN extract_from_image(media)
    ELSE IF BadByte \in Range(content.data) THEN Failed
    ELSE Extracted(content.data, One)

\* OCRService.extract_text_from_document: content is the base64 text (whether
\* b64decode accepts it, and the bytes it yields), media what the imaging
\* libraries make of those bytes.  Every exception of the body is answered by
\* OCRResult(text="", confidence=0.0)
extract_text_from_document(content, media, document_type) ==
    IF ~content.valid THEN Extracted(<<>>, Zero)
    ELSE IF document_type = "pdf" THEN extract_from_pdf(media)
    ELSE IF document_type = "image" THEN extract_from_image(media)
    ELSE IF BadByte \in Range(content.data) THEN Extracted(<<>>, Zero)
    ELSE Extracted(content.data, One)

\* ------------------------------------------------- process_batch: inputs
T_ab == <<"a", "b">>
T_ab_cd == <<"a", "b", " ", "c", "d">>
T_Ab_cd_dot == <<"A", "b", " ", "c", "d", ".">>
T_query == <<"a", "b", " ", "c", "d">>
T_blank == <<" ", " ">>

Page(direct, ocr_ok, ocr) == [direct |-> direct, ocr_ok |-> ocr_ok, ocr |-> ocr]
NoMedia == [ok |-> FALSE, pages |-> <<>>]
Media(pages) == [ok |-> TRUE, pages |-> pages]

ImageTypes == {"image/png"}

Upload(content_type, read_ok, read_time, payload, media) ==
    [content_type |-> content_type, read_ok |-> read_ok, read_time |-> read_time,
     payload |-> payload, media |-> media]

\* the uploads a batch is made of: what reading the file gives (or that it
\* raises) and how long it takes, and what the imaging libraries make of
\* its bytes
DocInputs ==
    { Upload(Some("text/plain"), FALSE, 1, <<>>, NoMedia),
      Upload(None, TRUE, 0, T_ab, NoMedia),
      Upload(Some("text/plain"), TRUE, 0, T_ab_cd, NoMedia),
      Upload(Some("application/octet-stream"), TRUE, 1, <<BadByte>> \o T_ab, NoMedia),
      Upload(Some("image/png"), TRUE, 0, <<BadByte>>, NoMedia),
      Upload(Some("image/png"), TRUE, 1, <<BadByte>>,
             Media(<<Page(<<>>, TRUE, T_Ab_cd_dot)>>)),
      Upload(Some("application/pdf"), TRUE, 0, <<BadByte>>, NoMedia),
      Upload(Some("application/pdf"), TRUE, 0, <<BadByte>>,
             Media(<<Page(T_ab, TRUE, <<>>), Page(<<>>, FALSE, <<>>)>>)),
      Upload(Some("application/pdf"), TRUE, 1, <<BadByte>>,
             Media(<<Page(T_ab, TRUE, <<>>), Page(<<" ">>, TRUE, T_ab_cd)>>)) }

Queries == {None, Some(<<>>), Some(T_blank), Some(T_query)}

\* the calls of the OCR service: base64 text that does not decode or the
\* bytes it decodes to, what the imaging libraries make of the bytes, the
\* document type and the language
OCRContents ==
    {[valid |-> FALSE, data |-> <<>>]}
       \cup {B64(data) : data \in {<<>>, T_ab, T_ab_cd, <<BadByte>> \o T_ab}}

\* more characters than the OCR confidence of a page counts
LongPage == 900

OCRMedia ==
    { NoMedia,
      Media(<<>>),
      Media(<<Page(<<>>, FALSE, <<>>)>>),
      Media(<<Page(<<>>, TRUE, T_Ab_cd_dot)>>),
      Media(<<Page(T_ab, TRUE, <<>>), Page(<<>>, FALSE, <<>>)>>),
      Media(<<Page(<<>>, FALSE, <<>>), Page(T_ab, TRUE, <<>>)>>),
      Media(<<Page(T_ab, TRUE, <<>>), Page(<<" ">>, TRUE, T_ab_cd)>>),
      Media(<<Page(<<>>, TRUE, T_ab \o <<"\n">>)>>),
      Media(<<Page(<<>>, TRUE, Repeated("a", LongPage))>>),
      Media(<<Page(<<>>, TRUE, <<"\n">>), Page(T_ab_cd, TRUE, <<>>)>>) }

Languages == {"por", "eng", "spa"}

\* values of the language form field
T_por == <<"p", "o", "r">>
T_pt == <<"p", "t">>
T_PT == <<"P", "T">>
T_en == <<"e", "n">>
T_En == <<"E", "n">>
T_es == <<"e", "s">>
T_eng == <<"e", "n", "g">>
T_SPA == <<"S", "P", "A">>
T_fr == <<"f", "r">>
T_pt_space == <<"p", "t", " ">>

LanguageInputs ==
    {None, Some(<<>>), Some(T_por), Some(T_pt), Some(T_PT), Some(T_en), Some(T_En),
     Some(T_es), Some(T_eng), Some(T_SPA), Some(T_fr), Some(T_pt_space)}

\* LANG_MAP: API code -> Tesseract code
LANG_MAP ==
    { <<<<"p", "t">>, "por">>, <<<<"e", "n">>, "eng">>, <<<<"e", "s">>, "spa">>,
      <<<<"p", "o", "r">>, "por">>, <<<<"e", "n", "g">>, "eng">>, <<<<"s", "p", "a">>, "spa">> }

\* LANG_MAP.get(key, default)
MapGet(map, key, default) ==
    IF \E e \in map : e[1] = key
    THEN (CHOOSE e \in map : e[1] = key)[2]
    ELSE default

OCRRequest(content_, media, document_type, language) ==
    [content |-> content_, media |-> media, document_type |-> document_type,
     language |-> language]

OCRRequests ==
    {OCRRequest(c, m, t, l) : c \in OCRContents, m \in OCRMedia,
                              t \in DocumentTypes, l \in Languages}

NoRequest == OCRRequest(B64(<<>>), NoMedia, "text", "por")

\* the texts given to analyze_text
T_lei == <<"L", "e", "i">>
T_contrato ==
    <<"c", "o", "n", "t", "r", "a", "t", "o", " ", "p", "r", "a", "z", "o", " ", "v", "a", "l", "o", "r", " ", "t", "o", "t", "a", "l">>
T_four ==
    <<"l", "e", "i", " ", "d", "a", "d", "o", "s", " ", "t", "o", "t", "a", "l", " ", "c", "a", "r", "t", "a">>

AnalyzeTexts == {<<>>, T_ab, T_Ab_cd_dot, T_lei, T_contrato, T_four}

\* the arguments of calls of the NLPService methods
T_a_cd == <<"a", " ", "c", "d">>
T_a_ab_dot == <<"a", " ", "a", "b", ".">>
T_ab_ab == <<"a", "b", " ", "a", "b">>
T_cd_ef_gh == <<"c", "d", " ", "e", "f", " ", "g", "h">>
T_four_sentences == <<"a", "b", " ", "c", "d", ".", " ", "e", "f", "!", " ", "c", "d", " ", "a", "b", "?", " ", "g", "h", " ", "a", "b", ".", " ", "c", "d">>

T_five_dots ==
    <<"a", "b", ".", " ", "c", "d", ".", " ", "a", "b", " ", "c", "d", ".", " ", "c", "d", " ", "a", "b", ".", " ", "e", "f">>

T_lei_casa == <<"l", "e", "i", " ", "l", "e", "i", " ", "c", "a", "s", "a">>
T_keywords ==
    <<"C", "a", "s", "a", ",", " ", "l", "e", "i", " ", "p", "a", "r", "a", " ", "c", "a", "s", "a", "-",
       "a", "b", "c", "1", " ", "m", "u", "i", "t", "o", " ", "C", "A",
       "S", "A", " ", "p", "r", "a", "z", "o", ".", " ", "p", "r", "a", "z", "o", " ", "l", "e", "i", " ", "l", "e", "i">>
T_eleven_words ==
    <<"a", "a", "a", "a", " ",
      "b", "b", "b", "b", " ",
      "c", "c", "c", "c", " ",
      "d", "d", "d", "d", " ",
      "e", "e", "e", "e", " ",
      "f", "f", "f", "f", " ",
      "g", "g", "g", "g", " ",
      "h", "h", "h", "h", " ",
      "i", "i", "i", "i", " ",
      "j", "j", "j", "j", " ",
      "k", "k", "k", "k", " ",
      "k", "k", "k", "k", " ", "c", "c", "c", "c">>

\* texts around the maximal summary length
T_exactly_max == Repeated("a", SummaryMax)
T_over_max == Repeated("a", SummaryMax + 1)
T_long_five == Repeated("a", SummaryMax - 2) \o <<".", " ", "b", ".", " ", "c", ".", " ", "d", ".", " ", "e">>

\* texts for analyze_sentiment
T_bom == <<"B", "o", "m">>
T_ruim_ab_cd == <<"r", "u", "i", "m", " ", "a", "b", " ", "c", "d">>
T_bom_ruim == <<"b", "o", "m", " ", "r", "u", "i", "m">>
T_lucros == <<"L", "u", "c", "r", "o", "s", " ", "b", "o", "m", "b", "o", "m", " ",
              "e", "r", "r", "o", "s", " ", "a", "b", " ", "c", "d", " ", "e", "f">>
ManyWords == 200
Filler(n) == [i \in 1..(3 * n) |-> IF i % 3 = 1 THEN " " ELSE IF i % 3 = 2 THEN "a" ELSE "b"]
T_bom_in_many == <<"b", "o", "m">> \o Filler(ManyWords)
T_erro_in_many == <<"e", "r", "r", "o">> \o Filler(ManyWords)
SentimentTexts ==
    {T_bom, T_ruim_ab_cd, T_bom_ruim, T_lucros, T_bom_in_many, T_erro_in_many}

DefaultMaxKeywords == 10
KeywordLimits == {1, 2, DefaultMaxKeywords}

NLPQueries == {<<>>, T_ab, T_query, T_a_cd}

NLPTexts ==
    {<<>>, T_blank, T_ab, T_Ab_cd_dot, T_a_ab_dot, T_ab_ab, T_four_sentences,
     T_five_dots, T_lei_casa, T_keywords, T_eleven_words,
     T_exactly_max, T_over_max, T_long_five} \cup SentimentTexts

NLPTextLists ==
    {<<>>, <<<<>>>>, <<T_ab_ab>>, <<T_ab_cd, <<>>, T_cd_ef_gh>>, <<T_cd_ef_gh, T_Ab_cd_dot>>}

ReadError == "read failed"
NoContentTypeError == "'NoneType' object has no attribute 'startswith'"

\* ---------------------------------------------- process_batch: the state
VARIABLES
    ocr_request,        \* the arguments of a call of the OCR service
    ocr_result,         \* what that call returned (Optional)
    texts_arg,          \* the texts argument of a call of an NLPService method
    nlp_result,         \* what that call returned (Optional)
    text_arg,           \* the text parameter of analyze_text or of an NLP call
    files_given,        \* the files argument is a list of uploads
    language,           \* the language form field (Optional)
    query,              \* the query form field (Optional)
    nfiles,             \* len(files)
    vectorizer_ok,      \* sklearn can be imported in this process
    files,              \* the uploads the loop has reached so far, in input order
    pc,                 \* position of the handler
    clock,              \* time.time()
    next_uuid,          \* source of uuid.uuid4()
    results, successful_docs, failed_docs,
    doc_start_time, document_id, content, extracted_text, summary,
    similarity_score, justification, relevant_excerpts, exc,
    total_processing_time, batch_response, audit_logs, returned,
    audit_calls,        \* the write_log calls made so far, with their state
    raised,             \* the HTTPException the handler raised (Optional)
    requests_per_minute, \* RateLimitMiddleware.requests_per_minute
    client_requests,    \* RateLimitMiddleware.client_requests
    current_time,       \* time.time() at the latest dispatch
    dispatched,         \* the requests dispatched so far and how each was answered
    max_retries, delay, backoff,   \* the arguments of retry_decorator
    attempt, current_delay, last_exception,   \* the locals of the wrapper
    calls,              \* the invocations of the wrapped function and their outcomes
    sleeps,             \* the waits of the wrapper so far
    wrapper_outcome,    \* what the wrapper returned or raised (Optional)
    legacy,             \* process_batch is called by upload_file_legacy
    legacy_response,    \* what upload_file_legacy returned (Optional)
    legacy_raised       \* the HTTPException upload_file_legacy raised (Optional)

svc_vars == <<ocr_request, ocr_result>>
nlp_vars == <<texts_arg, nlp_result>>
run_vars == <<nlp_vars, text_arg, files_given, language, query, nfiles, vectorizer_ok>>
out_vars == <<audit_calls, raised>>
acc_vars == <<results, successful_docs, failed_docs>>
doc_vars == <<doc_start_time, document_id, content, extracted_text, summary,
              similarity_score, justification, relevant_excerpts, exc>>
end_vars == <<total_processing_time, batch_response, audit_logs, returned>>
mw_vars == <<requests_per_minute, client_requests, current_time, dispatched>>
retry_vars == <<max_retries, delay, backoff, attempt, current_delay, last_exception,
                calls, sleeps, wrapper_outcome>>
legacy_vars == <<legacy, legacy_response, legacy_raised>>
util_vars == <<mw_vars, retry_vars, legacy_vars>>
batch_vars == <<svc_vars, run_vars, files, clock, next_uuid, acc_vars, doc_vars, end_vars,
                out_vars>>
vars == <<batch_vars, pc, util_vars>>

\* tess_lang without the .lower(): the table is matched case-sensitively
tess_lang_case_sensitive ==
    MapGet(LANG_MAP, IF IsSome(language) /\ Get(language) # <<>> THEN Get(language)
                     ELSE T_por, "por")

\* lang_param = str(language or "por").lower(); LANG_MAP.get(lang_param, "por")
tess_lang ==
    MapGet(LANG_MAP, LowerStr(IF IsSome(language) /\ Get(language) # <<>>
                              THEN Get(language) ELSE T_por), "por")

\* has_query without the strip: bool(query)
has_query_unstripped == IsSome(query) /\ Get(query) # <<>>

\* has_query = bool(query and query.strip())
has_query == IsSome(query) /\ Get(query) # <<>> /\ Strip(Get(query)) # <<>>

processing_mode == IF has_query THEN "ranking" ELSE "summary_only"

HighThreshold == Rat(7, 10)
ModerateThreshold == Rat(4, 10)

\* the thresholds taken inclusively (>= instead of >)
JustifyInclusive(score) ==
    IF RLe(HighThreshold, score)
    THEN [band |-> "altamente relevante", score |-> Fmt2(score)]
    ELSE IF RLe(ModerateThreshold, score)
         THEN [band |-> "moderadamente relevante", score |-> Fmt2(score)]
         ELSE [band |-> "pouco relevante", score |-> Fmt2(score)]

\* the justification chosen by the thresholds of process_batch
Justify(score) ==
    IF RGt(score, HighThreshold)
    THEN [band |-> "altamente relevante", score |-> Fmt2(score)]
    ELSE IF RGt(score, ModerateThreshold)
         THEN [band |-> "moderadamente relevante", score |-> Fmt2(score)]
         ELSE [band |-> "pouco relevante", score |-> Fmt2(score)]

\* key=lambda x: x.similarity_score or 0
SortKey(x) == IF IsSome(x.similarity_score) THEN Get(x.similarity_score) ELSE Zero

SortKeys(seq) == [i \in 1..Len(seq) |-> SortKey(seq[i])]

DocumentResult(id, filename, status, text, summ, score, just, excerpts, time, error) ==
    [document_id |-> id, filename |-> filename, status |-> status,
     extracted_text |-> text, summary |-> summ, similarity_score |-> score,
     justification |-> just, relevant_excerpts |-> excerpts,
     processing_time |-> time, error_message |-> error]

file == files[Len(files)]

\* no NLPService method has been called on its own
NoNLPCall ==
    /\ texts_arg = <<>>
    /\ nlp_result = None

\* the rate limiter, the retry wrapper and the legacy route at rest, with
\* the defaults of their parameters
NoDispatch ==
    /\ requests_per_minute = 100
    /\ client_requests = EmptyMap
    /\ current_time = 0
    /\ dispatched = <<>>

NoRetry ==
    /\ max_retries = 3
    /\ delay = 1
    /\ backoff = 2
    /\ attempt = 0
    /\ current_delay = 1
    /\ last_exception = None
    /\ calls = <<>>
    /\ sleeps = <<>>
    /\ wrapper_outcome = None

NotLegacy ==
    /\ legacy = FALSE
    /\ legacy_response = None
    /\ legacy_raised = None

\* the handler's locals, the sink and the caller's view before the handler runs
BatchAtEntry ==
    /\ files = <<>>
    /\ clock = 0
    /\ next_uuid = 1
    /\ results = <<>>
    /\ successful_docs = 0
    /\ failed_docs = 0
    /\ doc_start_time = 0
    /\ document_id = 0
    /\ content = <<>>
    /\ extracted_text = <<>>
    /\ summary = <<>>
    /\ similarity_score = None
    /\ justification = None
    /\ relevant_excerpts = None
    /\ exc = None
    /\ total_processing_time = 0
    /\ batch_response = None
    /\ audit_logs = <<>>
    /\ returned = None
    /\ audit_calls = <<>>
    /\ raised = None

AtEntry ==
    /\ BatchAtEntry
    /\ NoDispatch
    /\ NoRetry
    /\ NotLegacy

\* a call of process_batch.  files_given is FALSE for a call whose files
\* argument is not a list (process_batch called as a function with
\* files=None)
Init ==
    /\ ocr_request = NoRequest
    /\ ocr_result = None
    /\ NoNLPCall
    /\ text_arg = <<>>
    /\ files_given \in BOOLEAN
    /\ language = Some(T_por)
    /\ query \in Queries
    /\ nfiles \in IF files_given THEN 1..MaxDocs ELSE {0}
    /\ vectorizer_ok \in IF files_given THEN BOOLEAN ELSE {TRUE}
    /\ pc = "loop"
    /\ AtEntry

\* a call of process_batch with any language field
InitLang ==
    /\ ocr_request = NoRequest
    /\ ocr_result = None
    /\ NoNLPCall
    /\ text_arg = <<>>
    /\ files_given \in BOOLEAN
    /\ language \in LanguageInputs
    /\ query \in {None, Some(T_query)}
    /\ nfiles \in IF files_given THEN 1..MaxLangDocs ELSE {0}
    /\ vectorizer_ok = TRUE
    /\ pc = "loop"
    /\ AtEntry

\* a call of OCRService.extract_text_from_document
InitOCR ==
    /\ ocr_request \in OCRRequests
    /\ ocr_result = None
    /\ NoNLPCall
    /\ text_arg = <<>>
    /\ files_given = TRUE
    /\ language = Some(T_por)
    /\ query = None
    /\ nfiles = 0
    /\ vectorizer_ok = TRUE
    /\ pc = "ocr"
    /\ AtEntry

\* return OCRResult(text=..., confidence=...), on either path
OCRExtract ==
    /\ pc = "ocr"
    /\ ocr_result' = Some(extract_text_from_document(ocr_request.content,
                              ocr_request.media, ocr_request.document_type))
    /\ pc' = "done"
    /\ UNCHANGED <<util_vars, ocr_request, run_vars, files, clock, next_uuid, acc_vars,
                   doc_vars, end_vars, out_vars>>

NextOCR == OCRExtract

SpecOCR == InitOCR /\ [][NextOCR]_vars

\* for file in files: doc_start_time, document_id
BeginDoc ==
    /\ pc = "loop"
    /\ files_given
    /\ Len(files) < nfiles
    /\ \E d \in DocInputs :
          files' = Append(files, [filename |-> Len(files) + 1] @@ d)
    /\ doc_start_time' = clock
    /\ document_id' = next_uuid
    /\ next_uuid' = next_uuid + 1
    /\ content' = <<>>
    /\ extracted_text' = <<>>
    /\ summary' = <<>>
    /\ similarity_score' = None
    /\ justification' = None
    /\ relevant_excerpts' = None
    /\ exc' = None
    /\ pc' = "read"
    /\ UNCHANGED <<util_vars, svc_vars, run_vars, out_vars, clock, acc_vars, end_vars>>

\* content = await file.read(); the clock advances by the time the read takes
ReadFile ==
    /\ pc = "read"
    /\ clock' = clock + file.read_time
    /\ IF file.read_ok
       THEN /\ content' = file.payload
            /\ pc' = "extract"
            /\ exc' = exc
       ELSE /\ exc' = Some(ReadError)
            /\ pc' = "except"
            /\ content' = content
    /\ UNCHANGED <<util_vars, svc_vars, run_vars, out_vars, files, next_uuid, acc_vars, doc_start_time,
                   document_id, extracted_text, summary, similarity_score,
                   justification, relevant_excerpts, end_vars>>

\* the DocumentType process_batch passes for an upload with a content type,
\* "text" standing for the branch that calls no OCR
OCRKind(f) ==
    IF Get(f.content_type) = "application/pdf" THEN "pdf"
    ELSE IF Get(f.content_type) \in ImageTypes THEN "image"
    ELSE "text"

\* ExtractText with an OCR service that lets the failure of Image.open escape
ExtractTextImageRaises ==
    /\ pc = "extract"
    /\ IF IsNone(file.content_type)
          \/ (Get(file.content_type) \in ImageTypes /\ ~file.media.ok)
       THEN /\ exc' = Some(IF IsNone(file.content_type) THEN NoContentTypeError
                            ELSE "cannot identify image file")
            /\ pc' = "except"
            /\ extracted_text' = extracted_text
            /\ UNCHANGED svc_vars
       ELSE /\ IF OCRKind(file) # "text"
               THEN /\ ocr_request' = OCRRequest(B64(content), file.media,
                                                 OCRKind(file), tess_lang)
                    /\ ocr_result' = Some(extract_text_from_document(
                                             B64(content), file.media, OCRKind(file)))
                    /\ extracted_text' = Get(ocr_result').text
               ELSE /\ extracted_text' = DecodeIgnore(content)
                    /\ UNCHANGED svc_vars
            /\ pc' = "summarize"
            /\ exc' = exc
    /\ UNCHANGED <<util_vars, run_vars, out_vars, files, clock, next_uuid, acc_vars, doc_start_time,
                   document_id, content, summary, similarity_score,
                   justification, relevant_excerpts, end_vars>>

\* the extraction path chosen by file.content_type
ExtractText ==
    /\ pc = "extract"
    /\ IF IsNone(file.content_type)
       THEN /\ exc' = Some(NoContentTypeError)
            /\ pc' = "except"
            /\ extracted_text' = extracted_text
            /\ UNCHANGED svc_vars
       ELSE /\ IF OCRKind(file) # "text"
               THEN /\ ocr_request' = OCRRequest(B64(content), file.media,
                                                 OCRKind(file), tess_lang)
                    /\ ocr_result' = Some(extract_text_from_document(
                                             B64(content), file.media, OCRKind(file)))
                    /\ extracted_text' = Get(ocr_result').text
               ELSE /\ extracted_text' = DecodeIgnore(content)
                    /\ UNCHANGED svc_vars
            /\ pc' = "summarize"
            /\ exc' = exc
    /\ UNCHANGED <<util_vars, run_vars, out_vars, files, clock, next_uuid, acc_vars, doc_start_time,
                   document_id, content, summary, similarity_score,
                   justification, relevant_excerpts, end_vars>>

\* summary = nlp_service.summarize_text(extracted_text)
Summarize ==
    /\ pc = "summarize"
    /\ summary' = summarize_text(extracted_text)
    /\ pc' = IF has_query THEN "score" ELSE "build"
    /\ UNCHANGED <<util_vars, svc_vars, run_vars, out_vars, files, clock, next_uuid, acc_vars, doc_start_time,
                   document_id, content, extracted_text, similarity_score,
                   justification, relevant_excerpts, exc, end_vars>>

\* if has_query: similarity, excerpts, justification
Score ==
    /\ pc = "score"
    /\ \E similarities \in calculate_similarity(Get(query), <<extracted_text>>, vectorizer_ok) :
          LET s == IF Len(similarities) > 0 THEN similarities[1] ELSE Zero
          IN  /\ similarity_score' = Some(s)
              /\ justification' = Some(Justify(s))
    /\ \E excerpts \in find_relevant_excerpts(Get(query), extracted_text, vectorizer_ok) :
          relevant_excerpts' = Some(excerpts)
    /\ pc' = "build"
    /\ UNCHANGED <<util_vars, svc_vars, run_vars, out_vars, files, clock, next_uuid, acc_vars, doc_start_time,
                   document_id, content, extracted_text, summary, exc, end_vars>>

\* CompleteDoc with results.insert(0, doc_result) instead of append
CompleteDocPrepend ==
    /\ pc = "build"
    /\ results' = <<DocumentResult(document_id, file.filename, "completed",
                         Some(extracted_text), Some(summary), similarity_score,
                         justification, relevant_excerpts,
                         clock - doc_start_time, None)>> \o results
    /\ successful_docs' = successful_docs + 1
    /\ pc' = "loop"
    /\ UNCHANGED <<util_vars, svc_vars, run_vars, out_vars, files, clock, next_uuid, failed_docs, doc_vars, end_vars>>

\* DocumentResult(status=COMPLETED, ...); results.append; successful_docs += 1
CompleteDoc ==
    /\ pc = "build"
    /\ results' = Append(results,
          DocumentResult(document_id, file.filename, "completed",
                         Some(extracted_text), Some(summary), similarity_score,
                         justification, relevant_excerpts,
                         clock - doc_start_time, None))
    /\ successful_docs' = successful_docs + 1
    /\ pc' = "loop"
    /\ UNCHANGED <<util_vars, svc_vars, run_vars, out_vars, files, clock, next_uuid, failed_docs, doc_vars, end_vars>>

\* FailDoc re-raising: the exception leaves the loop and the handler
FailDocReraise ==
    /\ pc = "except"
    /\ pc' = "done"
    /\ UNCHANGED <<util_vars, svc_vars, run_vars, out_vars, files, clock, next_uuid, acc_vars, doc_vars, end_vars>>

\* FailDoc counting the document as successful
FailDocMiscount ==
    /\ pc = "except"
    /\ results' = Append(results,
          DocumentResult(document_id, file.filename, "failed",
                         None, None, None, None, None,
                         clock - doc_start_time, Some(Get(exc))))
    /\ successful_docs' = successful_docs + 1
    /\ pc' = "loop"
    /\ UNCHANGED <<util_vars, svc_vars, run_vars, out_vars, files, clock, next_uuid, failed_docs, doc_vars, end_vars>>

\* FailDoc with the elapsed time subtracted the wrong way round
FailDocNegativeTime ==
    /\ pc = "except"
    /\ results' = Append(results,
          DocumentResult(document_id, file.filename, "failed",
                         None, None, None, None, None,
                         doc_start_time - clock, Some(Get(exc))))
    /\ failed_docs' = failed_docs + 1
    /\ pc' = "loop"
    /\ UNCHANGED <<util_vars, svc_vars, run_vars, out_vars, files, clock, next_uuid, successful_docs, doc_vars, end_vars>>

\* FailDoc trying the document again instead of recording its failure
FailDocRetry ==
    /\ pc = "except"
    /\ exc' = None
    /\ pc' = "read"
    /\ UNCHANGED <<util_vars, svc_vars, run_vars, out_vars, files, clock, next_uuid, acc_vars,
                   doc_start_time, document_id, content, extracted_text, summary,
                   similarity_score, justification, relevant_excerpts, end_vars>>

\* FailDoc keeping what was read before the exception
FailDocKeepsText ==
    /\ pc = "except"
    /\ results' = Append(results,
          DocumentResult(document_id, file.filename, "failed",
                         Some(DecodeIgnore(content)), None, None, None, None,
                         clock - doc_start_time, Some(Get(exc))))
    /\ failed_docs' = failed_docs + 1
    /\ pc' = "loop"
    /\ UNCHANGED <<util_vars, svc_vars, run_vars, out_vars, files, clock, next_uuid, successful_docs, doc_vars, end_vars>>

\* except Exception as e: DocumentResult(status=FAILED, ...); failed_docs += 1
FailDoc ==
    /\ pc = "except"
    /\ results' = Append(results,
          DocumentResult(document_id, file.filename, "failed",
                         None, None, None, None, None,
                         clock - doc_start_time, Some(Get(exc))))
    /\ failed_docs' = failed_docs + 1
    /\ pc' = "loop"
    /\ UNCHANGED <<util_vars, svc_vars, run_vars, out_vars, files, clock, next_uuid, successful_docs, doc_vars, end_vars>>

\* sorted ascending and then reversed: equal keys end in reverse input order
ReverseOfAscending(seq, keys) ==
    LET n == Len(seq)
        pos(i) == 1 + Cardinality({j \in 1..n : RGt(keys[j], keys[i])})
                    + Cardinality({j \in (i + 1)..n : REq(keys[j], keys[i])})
    IN  [p \in 1..n |-> seq[CHOOSE i \in 1..n : pos(i) = p]]

\* SortResults with results = sorted(results, key=...)[::-1]
SortResultsReversed ==
    /\ pc = "loop"
    /\ files_given
    /\ Len(files) = nfiles
    /\ results' = IF has_query THEN ReverseOfAscending(results, SortKeys(results)) ELSE results
    /\ pc' = "respond"
    /\ UNCHANGED <<util_vars, svc_vars, run_vars, out_vars, files, clock, next_uuid, successful_docs, failed_docs,
                   doc_vars, end_vars>>

\* SortResults leaving the loop after any document, not only the last
SortResultsEarly ==
    /\ pc = "loop"
    /\ files_given
    /\ Len(files) >= 1
    /\ results' = IF has_query THEN StableSortDesc(results, SortKeys(results)) ELSE results
    /\ pc' = "respond"
    /\ UNCHANGED <<util_vars, svc_vars, run_vars, out_vars, files, clock, next_uuid, successful_docs, failed_docs,
                   doc_vars, end_vars>>

\* if has_query: results.sort(key=..., reverse=True)
SortResults ==
    /\ pc = "loop"
    /\ files_given
    /\ Len(files) = nfiles
    /\ results' = IF has_query THEN StableSortDesc(results, SortKeys(results)) ELSE results
    /\ pc' = "respond"
    /\ UNCHANGED <<util_vars, svc_vars, run_vars, out_vars, files, clock, next_uuid, successful_docs, failed_docs,
                   doc_vars, end_vars>>

\* total_processing_time; batch_response = BatchResponse(...)
BuildResponse ==
    /\ pc = "respond"
    /\ total_processing_time' = clock
    /\ batch_response' = Some(
          [query |-> IF has_query THEN query ELSE None,
           total_documents |-> nfiles,
           successful_documents |-> successful_docs,
           failed_documents |-> failed_docs,
           results |-> results,
           total_processing_time |-> clock])
    /\ pc' = "audit"
    /\ UNCHANGED <<util_vars, svc_vars, run_vars, out_vars, files, clock, next_uuid, acc_vars, doc_vars,
                   audit_logs, returned>>

\* a write_log call: the document handed to the sink and the state of the
\* call ("pending" until the sink answers, then "written" or "failed")
AuditCall(q, resultado, processing_time, error) ==
    [record |-> [query |-> q, resultado |-> resultado,
                 processing_time |-> processing_time, error |-> error],
     state |-> "pending"]

\* try: await audit_log.write_log(...): the call is made and awaited
AuditWrite ==
    /\ pc = "audit"
    /\ audit_calls' = Append(audit_calls,
          AuditCall(IF has_query THEN query ELSE None,
                    [type |-> "batch_processing",
                     total_documents |-> nfiles,
                     successful_documents |-> successful_docs,
                     failed_documents |-> failed_docs,
                     has_query |-> has_query,
                     processing_mode |-> processing_mode],
                    Some(total_processing_time), None))
    /\ pc' = "audit_wait"
    /\ UNCHANGED <<util_vars, svc_vars, run_vars, files, clock, next_uuid, acc_vars, doc_vars,
                   end_vars, raised>>

WaitStates == {"audit_wait", "error_wait", "analyze_wait"}

\* where each handler goes on once its awaited write_log has answered
AfterWait(at) ==
    IF at = "audit_wait" THEN "return"
    ELSE IF at = "error_wait" THEN "raise"
    ELSE "analyze_return"

\* the awaited write_log answers, and its exception leaves the try of
\* process_batch: the outer handler takes over
AuditAnswerRaises ==
    /\ pc \in WaitStates
    /\ \E written \in BOOLEAN :
          /\ audit_calls' = [audit_calls EXCEPT ![Len(audit_calls)].state =
                                IF written THEN "written" ELSE "failed"]
          /\ audit_logs' = IF written
                           THEN Append(audit_logs, audit_calls[Len(audit_calls)].record)
                           ELSE audit_logs
          /\ IF ~written /\ pc = "audit_wait"
             THEN /\ exc' = Some("write_log failed")
                  /\ pc' = "error_audit"
             ELSE /\ exc' = exc
                  /\ pc' = AfterWait(pc)
    /\ UNCHANGED <<util_vars, svc_vars, run_vars, files, clock, next_uuid, acc_vars,
                   doc_start_time, document_id, content, extracted_text, summary,
                   similarity_score, justification, relevant_excerpts,
                   total_processing_time, batch_response, returned, raised>>

\* the awaited write_log answers: insert_one stored the document, or write_log
\* raised and the except clause around the call logged a warning.  Either
\* way the handler goes on
AuditAnswer ==
    /\ pc \in WaitStates
    /\ \E written \in BOOLEAN :
          /\ audit_calls' = [audit_calls EXCEPT ![Len(audit_calls)].state =
                                IF written THEN "written" ELSE "failed"]
          /\ audit_logs' = IF written
                           THEN Append(audit_logs, audit_calls[Len(audit_calls)].record)
                           ELSE audit_logs
          /\ exc' = exc
          /\ pc' = AfterWait(pc)
    /\ UNCHANGED <<util_vars, svc_vars, run_vars, files, clock, next_uuid, acc_vars,
                   doc_start_time, document_id, content, extracted_text, summary,
                   similarity_score, justification, relevant_excerpts,
                   total_processing_time, batch_response, returned, raised>>

\* return batch_response
ReturnResponse ==
    /\ pc = "return"
    /\ returned' = batch_response
    /\ pc' = "done"
    /\ UNCHANGED <<util_vars, svc_vars, run_vars, out_vars, files, clock, next_uuid, acc_vars, doc_vars,
                   total_processing_time, batch_response, audit_logs>>

NotIterableError == "'NoneType' object is not iterable"

\* for file in files raises outside the per-document try: except Exception as e
RunFails ==
    /\ pc = "loop"
    /\ ~files_given
    /\ exc' = Some(NotIterableError)
    /\ pc' = "error_audit"
    /\ UNCHANGED <<util_vars, svc_vars, run_vars, out_vars, files, clock, next_uuid, acc_vars,
                   doc_start_time, document_id, content, extracted_text, summary,
                   similarity_score, justification, relevant_excerpts, end_vars>>

\* the error record handed to the sink without its awaited call: the
\* exception is raised to the caller at once
ErrorAuditSkipped ==
    /\ pc = "error_audit"
    /\ pc' = "raise"
    /\ UNCHANGED <<util_vars, svc_vars, run_vars, out_vars, files, clock, next_uuid, acc_vars,
                   doc_vars, end_vars>>

\* try: await audit_log.write_log(query=query, resultado={}, error=str(e))
ErrorAuditWrite ==
    /\ pc = "error_audit"
    /\ audit_calls' = Append(audit_calls, AuditCall(query, EmptyMap, None, exc))
    /\ pc' = "error_wait"
    /\ UNCHANGED <<util_vars, svc_vars, run_vars, files, clock, next_uuid, acc_vars, doc_vars,
                   end_vars, raised>>

\* raise HTTPException(status_code=500, detail=str(e))
RaiseHTTP ==
    /\ pc = "raise"
    /\ raised' = Some([status_code |-> 500, detail |-> Get(exc)])
    /\ pc' = "done"
    /\ UNCHANGED <<util_vars, svc_vars, run_vars, files, clock, next_uuid, acc_vars, doc_vars,
                   end_vars, audit_calls>>

Next ==
    \/ BeginDoc
    \/ ReadFile
    \/ ExtractText
    \/ Summarize
    \/ Score
    \/ CompleteDoc
    \/ FailDoc
    \/ SortResults
    \/ BuildResponse
    \/ AuditWrite
    \/ AuditAnswer
    \/ ReturnResponse
    \/ RunFails
    \/ ErrorAuditWrite
    \/ RaiseHTTP

Spec == Init /\ [][Next]_vars

SpecLang == InitLang /\ [][Next]_vars

\* a call of one NLPService method
InitNLP ==
    /\ ocr_request = NoRequest
    /\ ocr_result = None
    /\ texts_arg \in NLPTextLists
    /\ nlp_result = None
    /\ text_arg \in NLPTexts
    /\ files_given = TRUE
    /\ language = Some(T_por)
    /\ query \in {Some(q) : q \in NLPQueries}
    /\ nfiles = 0
    /\ vectorizer_ok \in BOOLEAN
    /\ pc = "nlp"
    /\ AtEntry

NLPReturn(method, value) == Some([method |-> method, value |-> value])

\* return similarities, on either path of calculate_similarity
NLPSimilarity ==
    /\ pc = "nlp"
    /\ \E similarities \in calculate_similarity(Get(query), texts_arg, vectorizer_ok) :
          nlp_result' = NLPReturn("calculate_similarity", similarities)
    /\ pc' = "done"
    /\ UNCHANGED <<util_vars, svc_vars, texts_arg, text_arg, files_given, language, query, nfiles,
                   vectorizer_ok, files, clock, next_uuid, acc_vars, doc_vars,
                   end_vars, out_vars>>

\* return relevant_excerpts (or [] for a text without sentences); the value
\* keeps the similarities calculate_similarity gave for the sentences
NLPExcerpts ==
    /\ pc = "nlp"
    /\ LET sentences == excerpt_sentences(text_arg)
       IN  IF sentences = <<>>
           THEN nlp_result' = NLPReturn("find_relevant_excerpts",
                                        [similarities |-> <<>>, excerpts |-> <<>>])
           ELSE \E similarities \in
                     calculate_similarity(Get(query), sentences, vectorizer_ok) :
                   nlp_result' = NLPReturn("find_relevant_excerpts",
                                    [similarities |-> similarities,
                                     excerpts |-> TopExcerpts(sentences, similarities)])
    /\ pc' = "done"
    /\ UNCHANGED <<util_vars, svc_vars, texts_arg, text_arg, files_given, language, query, nfiles,
                   vectorizer_ok, files, clock, next_uuid, acc_vars, doc_vars,
                   end_vars, out_vars>>

\* return keywords
NLPKeywords ==
    /\ pc = "nlp"
    /\ \E max_keywords \in KeywordLimits :
          nlp_result' = NLPReturn("extract_keywords",
                            [max_keywords |-> max_keywords,
                             keywords |-> extract_keywords(text_arg, max_keywords)])
    /\ pc' = "done"
    /\ UNCHANGED <<util_vars, svc_vars, texts_arg, text_arg, files_given, language, query, nfiles,
                   vectorizer_ok, files, clock, next_uuid, acc_vars, doc_vars,
                   end_vars, out_vars>>

\* return summary
NLPSummarize ==
    /\ pc = "nlp"
    /\ nlp_result' = NLPReturn("summarize_text", summarize_text(text_arg))
    /\ pc' = "done"
    /\ UNCHANGED <<util_vars, svc_vars, texts_arg, text_arg, files_given, language, query, nfiles,
                   vectorizer_ok, files, clock, next_uuid, acc_vars, doc_vars,
                   end_vars, out_vars>>

\* return the sentiment record
NLPSentiment ==
    /\ pc = "nlp"
    /\ nlp_result' = NLPReturn("analyze_sentiment", analyze_sentiment(text_arg))
    /\ pc' = "done"
    /\ UNCHANGED <<util_vars, svc_vars, texts_arg, text_arg, files_given, language, query, nfiles,
                   vectorizer_ok, files, clock, next_uuid, acc_vars, doc_vars,
                   end_vars, out_vars>>

NextNLP ==
    \/ NLPSummarize
    \/ NLPSimilarity
    \/ NLPExcerpts
    \/ NLPKeywords
    \/ NLPSentiment

SpecNLP == InitNLP /\ [][NextNLP]_vars

\* a call of analyze_text
InitAnalyze ==
    /\ ocr_request = NoRequest
    /\ ocr_result = None
    /\ NoNLPCall
    /\ text_arg \in AnalyzeTexts
    /\ files_given = TRUE
    /\ language = Some(T_por)
    /\ query = None
    /\ nfiles = 0
    /\ vectorizer_ok = TRUE
    /\ pc = "analyze"
    /\ AtEntry

\* word_count = len(text.split())
word_count == Len(SplitWords(text_arg))

\* char_count = len(text)
char_count == Len(text_arg)

\* the write_log call of analyze_text with the summary added to resultado
AnalyzeAuditWriteWithSummary ==
    /\ pc = "analyze"
    /\ audit_calls' = Append(audit_calls,
          AuditCall(None,
                    [type |-> "text_analysis",
                     word_count |-> word_count,
                     char_count |-> char_count,
                     categories |-> categorize_text(text_arg),
                     summary |-> summarize_text(text_arg)],
                    Some(0), None))
    /\ pc' = "analyze_wait"
    /\ UNCHANGED <<util_vars, svc_vars, run_vars, files, clock, next_uuid, acc_vars, doc_vars,
                   end_vars, raised>>

\* analyze_text up to its awaited write_log call
AnalyzeAuditWrite ==
    /\ pc = "analyze"
    /\ audit_calls' = Append(audit_calls,
          AuditCall(None,
                    [type |-> "text_analysis",
                     word_count |-> word_count,
                     char_count |-> char_count,
                     categories |-> categorize_text(text_arg)],
                    Some(0), None))
    /\ pc' = "analyze_wait"
    /\ UNCHANGED <<util_vars, svc_vars, run_vars, files, clock, next_uuid, acc_vars, doc_vars,
                   end_vars, raised>>

\* return TextAnalysisResponse(...)
AnalyzeReturn ==
    /\ pc = "analyze_return"
    /\ returned' = Some([original_text |-> text_arg,
                         word_count |-> word_count,
                         char_count |-> char_count,
                         summary |-> summarize_text(text_arg),
                         keywords |-> extract_keywords(text_arg, DefaultMaxKeywords),
                         sentiment |-> analyze_sentiment(text_arg).sentiment,
                         categories |-> categorize_text(text_arg)])
    /\ pc' = "done"
    /\ UNCHANGED <<util_vars, svc_vars, run_vars, out_vars, files, clock, next_uuid, acc_vars,
                   doc_vars, total_processing_time, batch_response, audit_logs>>

\* the handlers that write to the audit sink: process_batch and analyze_text
InitAudit == Init \/ InitAnalyze

NextAudit ==
    \/ Next
    \/ AnalyzeAuditWrite
    \/ AnalyzeReturn

SpecAudit == InitAudit /\ [][NextAudit]_vars

TypeOK ==
    /\ pc \in {"loop", "read", "extract", "summarize", "score", "build", "except",
               "respond", "audit", "audit_wait", "return", "error_audit",
               "error_wait", "raise", "analyze", "analyze_wait",
               "analyze_return", "ocr", "nlp", "dispatch", "retry", "sleep",
               "legacy_done", "done"}
    /\ Len(files) <= nfiles
    /\ Len(audit_logs) <= Len(audit_calls)
    /\ IsNone(returned) \/ IsNone(raised)
    /\ clock \in 0..nfiles

\* ----------------------------------------------------- RateLimitMiddleware
MaxRequests == 4
window_size == 60
ClientIPs == {"10.0.0.1", "unknown"}
Limits == {1, 2}
\* the time between two requests
TimeSteps == {0, 30, 60}

\* everything but the rate limiter is at rest
BatchIdle ==
    /\ ocr_request = NoRequest
    /\ ocr_result = None
    /\ NoNLPCall
    /\ text_arg = <<>>
    /\ files_given = TRUE
    /\ language = Some(T_por)
    /\ query = None
    /\ nfiles = 0
    /\ vectorizer_ok = TRUE
    /\ BatchAtEntry

\* RateLimitMiddleware(app, requests_per_minute)
InitRateLimit ==
    /\ BatchIdle
    /\ NoRetry
    /\ NotLegacy
    /\ requests_per_minute \in Limits
    /\ client_requests = EmptyMap
    /\ current_time = 0
    /\ dispatched = <<>>
    /\ pc = "dispatch"

\* _cleanup_old_requests: keep the times after the cutoff, drop the clients
\* left without any
cleanup_old_requests(requests, now) ==
    LET cutoff_time == now - window_size
        kept == [ip \in DOMAIN requests |->
                    SelectSeq(requests[ip], LAMBDA req_time : req_time > cutoff_time)]
    IN  [ip \in {c \in DOMAIN requests : kept[c] # <<>>} |-> kept[ip]]

\* _is_rate_limited with > for >=
is_rate_limited_above(requests, client_ip, limit) ==
    /\ client_ip \in DOMAIN requests
    /\ Len(requests[client_ip]) > limit

\* _is_rate_limited
is_rate_limited(requests, client_ip, limit) ==
    /\ client_ip \in DOMAIN requests
    /\ Len(requests[client_ip]) >= limit

\* _record_request
record_request(requests, client_ip, now) ==
    [ip \in DOMAIN requests \cup {client_ip} |->
        IF ip \in DOMAIN requests
        THEN IF ip = client_ip THEN Append(requests[ip], now) ELSE requests[ip]
        ELSE <<now>>]

\* RateLimitMiddleware.dispatch up to its return or its await of call_next;
\* nothing is awaited before, so no other dispatch runs in between.
\* status 429: the JSONResponse; status 0: the request went to call_next
Dispatch ==
    /\ pc = "dispatch"
    /\ Len(dispatched) < MaxRequests
    /\ \E client_ip \in ClientIPs, step \in TimeSteps :
          LET now == current_time + step
              cleaned == cleanup_old_requests(client_requests, now)
          IN  /\ current_time' = now
              /\ IF is_rate_limited(cleaned, client_ip, requests_per_minute)
                 THEN /\ client_requests' = cleaned
                      /\ dispatched' = Append(dispatched,
                            [client_ip |-> client_ip, time |-> now, status_code |-> 429])
                 ELSE /\ client_requests' = record_request(cleaned, client_ip, now)
                      /\ dispatched' = Append(dispatched,
                            [client_ip |-> client_ip, time |-> now, status_code |-> 0])
    /\ UNCHANGED <<batch_vars, pc, requests_per_minute, retry_vars, legacy_vars>>

NextRateLimit == Dispatch

SpecRateLimit == InitRateLimit /\ [][NextRateLimit]_vars

\* --------------------------------------------------------- retry_decorator
MaxRetries == 3
Delays == {1, 3}
Backoffs == {1, 2}
\* what a call of the wrapped function does: return, raise an Exception, or
\* raise a BaseException that is no Exception (a cancellation)
CallOutcomes == {"return", "Exception", "BaseException"}

\* a call of a function wrapped by retry_decorator(max_retries, delay, backoff)
InitRetry ==
    /\ BatchIdle
    /\ NoDispatch
    /\ NotLegacy
    /\ max_retries \in 0..MaxRetries
    /\ delay \in Delays
    /\ backoff \in Backoffs
    /\ attempt = 0
    /\ current_delay = delay
    /\ last_exception = None
    /\ calls = <<>>
    /\ sleeps = <<>>
    /\ wrapper_outcome = None
    /\ pc = "retry"

\* the exception the k-th call raised
Raised(k, type) == [call |-> k, type |-> type]

\* time.sleep(current_delay) without current_delay *= backoff
RetrySleepConstant ==
    /\ pc = "sleep"
    /\ sleeps' = Append(sleeps, current_delay)
    /\ attempt' = attempt + 1
    /\ pc' = "retry"
    /\ UNCHANGED <<batch_vars, mw_vars, legacy_vars, max_retries, delay, backoff,
                   current_delay, last_exception, calls, wrapper_outcome>>

\* for attempt in range(max_retries + 1): try: return func(*args, **kwargs)
\* except Exception as e: ... up to the sleep, the return or the raise
RetryCall ==
    /\ pc = "retry"
    /\ attempt <= max_retries
    /\ \E outcome \in CallOutcomes :
          LET k == Len(calls) + 1
          IN  /\ calls' = Append(calls, outcome)
              /\ CASE outcome = "return" ->
                        /\ wrapper_outcome' = Some([returned |-> k])
                        /\ pc' = "done"
                        /\ UNCHANGED last_exception
                   [] outcome = "BaseException" ->
                        /\ wrapper_outcome' = Some([raised |-> Raised(k, outcome)])
                        /\ pc' = "done"
                        /\ UNCHANGED last_exception
                   [] outcome = "Exception" ->
                        /\ last_exception' = Some(Raised(k, outcome))
                        /\ IF attempt = max_retries
                           THEN /\ wrapper_outcome' = Some([raised |-> Raised(k, outcome)])
                                /\ pc' = "done"
                           ELSE /\ pc' = "sleep"
                                /\ UNCHANGED wrapper_outcome
    /\ UNCHANGED <<batch_vars, mw_vars, legacy_vars, max_retries, delay, backoff,
                   attempt, current_delay, sleeps>>

\* time.sleep(current_delay); current_delay *= backoff
RetrySleep ==
    /\ pc = "sleep"
    /\ sleeps' = Append(sleeps, current_delay)
    /\ current_delay' = current_delay * backoff
    /\ attempt' = attempt + 1
    /\ pc' = "retry"
    /\ UNCHANGED <<batch_vars, mw_vars, legacy_vars, max_retries, delay, backoff,
                   last_exception, calls, wrapper_outcome>>

NextRetry ==
    \/ RetryCall
    \/ RetrySleep

SpecRetry == InitRetry /\ [][NextRetry]_vars

\* ------------------------------------------------------ upload_file_legacy
\* str() of the Form("por") default that process_batch sees for language
\* when it is called as a function without that argument: no key of LANG_MAP
T_form_default == <<"F", "o", "r", "m", "(", "p", "o", "r", ")">>

\* upload_file_legacy up to its call process_batch(request_id,
\* user_id="legacy_user", query=None, files=[file])
InitLegacy ==
    /\ ocr_request = NoRequest
    /\ ocr_result = None
    /\ NoNLPCall
    /\ text_arg = <<>>
    /\ files_given = TRUE
    /\ language = Some(T_form_default)
    /\ query = None
    /\ nfiles = 1
    /\ vectorizer_ok \in BOOLEAN
    /\ pc = "loop"
    /\ BatchAtEntry
    /\ NoDispatch
    /\ NoRetry
    /\ legacy = TRUE
    /\ legacy_response = None
    /\ legacy_raised = None

\* the dict upload_file_legacy returns for the first result
LegacyData(result) ==
    [success |-> TRUE,
     message |-> "Arquivo processado com sucesso",
     data |-> [document_id |-> result.document_id,
               filename |-> result.filename,
               status |-> result.status,
               extracted_text |-> result.extracted_text,
               summary |-> result.summary,
               processing_time |-> result.processing_time]]

\* except Exception as e: raise HTTPException(status_code=500, detail=str(e))
LegacyError(e) == [status_code |-> 500, detail |-> [str |-> e]]

\* upload_file_legacy answering success only for a completed document
LegacyAnswerChecksStatus ==
    /\ legacy
    /\ pc = "done"
    /\ IF IsSome(returned)
       THEN IF /\ Get(returned).results # <<>>
               /\ Get(returned).results[1].status = "completed"
            THEN /\ legacy_response' = Some(LegacyData(Get(returned).results[1]))
                 /\ UNCHANGED legacy_raised
            ELSE /\ legacy_raised' = Some(LegacyError("Erro no processamento"))
                 /\ UNCHANGED legacy_response
       ELSE /\ legacy_raised' = Some(LegacyError(Get(raised)))
            /\ UNCHANGED legacy_response
    /\ pc' = "legacy_done"
    /\ UNCHANGED <<batch_vars, mw_vars, retry_vars, legacy>>

\* upload_file_legacy after its await of process_batch: the dict for
\* response.results[0], or HTTPException 500 for an empty response.results
\* and for an exception of the call
LegacyAnswer ==
    /\ legacy
    /\ pc = "done"
    /\ IF IsSome(returned)
       THEN IF Get(returned).results # <<>>
            THEN /\ legacy_response' = Some(LegacyData(Get(returned).results[1]))
                 /\ UNCHANGED legacy_raised
            ELSE /\ legacy_raised' = Some(LegacyError("Erro no processamento"))
                 /\ UNCHANGED legacy_response
       ELSE /\ legacy_raised' = Some(LegacyError(Get(raised)))
            /\ UNCHANGED legacy_response
    /\ pc' = "legacy_done"
    /\ UNCHANGED <<batch_vars, mw_vars, retry_vars, legacy>>

\* the two routes that run a batch: /process-batch and /upload
InitRoutes == Init \/ InitLegacy

NextRoutes ==
    \/ Next
    \/ LegacyAnswer

SpecRoutes == InitRoutes /\ [][NextRoutes]_vars

\* ================================================================ claims
\* the loop has ended and results has its final order
Sorted == pc \in {"respond", "audit", "audit_wait", "return", "done"} /\ files_given

\* the i-th upload makes its processing raise
Throws(f) == ~f.read_ok \/ IsNone(f.content_type)

\* C1: an exception while processing one document never aborts the batch:
\* whenever the loop is back at its head every document reached so far has
\* its outcome, and when the handler ends it has returned a BatchResponse,
\* every input document has been processed, and every input document has
\* exactly one outcome, whose status is COMPLETED or FAILED.
C1_FailureIsolated ==
    /\ pc = "loop" => Len(results) = Len(files)
    /\ (pc = "done" /\ files_given) =>
          /\ IsSome(returned)
          /\ Len(files) = nfiles
          /\ \A i \in 1..nfiles :
                /\ Cardinality({k \in 1..Len(Get(returned).results) :
                                  Get(returned).results[k].filename = i}) = 1
                /\ \A k \in 1..Len(Get(returned).results) :
                      Get(returned).results[k].status \in {"completed", "failed"}

\* a returned run in which the first document raised and a later one completed
C1_Witness ==
    /\ pc = "done"
    /\ nfiles = 3
    /\ Throws(files[1])
    /\ Throws(files[2])
    /\ ~Throws(files[3])
    /\ \E k \in 1..3 : /\ Get(returned).results[k].filename = 3
                       /\ Get(returned).results[k].status = "completed"

\* C2: in every BatchResponse total_documents = successful_documents +
\* failed_documents = len(results), successful_documents being the number of
\* COMPLETED outcomes and failed_documents the number of FAILED ones.
C2_Totals ==
    IsSome(batch_response) =>
        LET r == Get(batch_response)
            completed == {k \in 1..Len(r.results) : r.results[k].status = "completed"}
            failed == {k \in 1..Len(r.results) : r.results[k].status = "failed"}
        IN  /\ r.total_documents = r.successful_documents + r.failed_documents
            /\ r.total_documents = Len(r.results)
            /\ r.successful_documents = Cardinality(completed)
            /\ r.failed_documents = Cardinality(failed)

\* a response over three documents of which exactly one failed
C2_Witness ==
    /\ IsSome(returned)
    /\ Get(returned).total_documents = 3
    /\ Get(returned).successful_documents = 2
    /\ Get(returned).failed_documents = 1

\* C3: with a query present the returned results are in descending order of
\* similarity score, a missing score counting as 0, and two outcomes of equal
\* effective score are in the order of their documents in the input.
C3_SortedStable ==
    (has_query /\ Sorted) =>
        \A i \in 1..Len(results) : \A j \in 1..Len(results) :
            i < j =>
               LET eff(x) == IF IsNone(x.similarity_score) THEN Zero
                             ELSE Get(x.similarity_score)
                   a == eff(results[i])
                   b == eff(results[j])
               IN  /\ a.n * b.d >= b.n * a.d
                   /\ a.n * b.d = b.n * a.d =>
                         results[i].filename < results[j].filename

\* a ranked run whose sort moved the second document to the front and left
\* a failed and a zero-scored document in input order behind it
C3_Witness ==
    /\ has_query
    /\ pc = "done"
    /\ Len(results) = 3
    /\ results[1].filename = 2
    /\ results[2].filename = 1
    /\ results[3].filename = 3
    /\ results[2].status = "failed"
    /\ results[3].status = "completed"
    /\ Get(results[3].similarity_score).n = 0

\* C4: without a query the i-th entry of results is the outcome of the i-th
\* input document, failed documents included, and len(results) is the number
\* of input documents.
C4_InputOrder ==
    (~has_query /\ Sorted) =>
        /\ Len(results) = nfiles
        /\ \A i \in 1..Len(results) :
              /\ results[i].filename = i
              /\ results[i].document_id = i
              /\ (results[i].status = "failed") = Throws(files[i])

\* a run without query: a failed document between two completed ones
C4_Witness ==
    /\ ~has_query
    /\ pc = "done"
    /\ Len(results) = 3
    /\ results[1].status = "completed"
    /\ results[2].status = "failed"
    /\ results[3].status = "completed"

\* C5: an absent, empty or whitespace-only query is no query: no outcome
\* carries a similarity score, a justification or excerpts, the outcomes stay
\* in input order, and the query echoed in the response and in the audit
\* record of the run is None.
C5_BlankQueryIsNoQuery ==
    (files_given /\ (IsNone(query) \/ Strip(Get(query)) = <<>>)) =>
        /\ \A i \in 1..Len(results) :
              /\ IsNone(results[i].similarity_score)
              /\ IsNone(results[i].justification)
              /\ IsNone(results[i].relevant_excerpts)
              /\ results[i].filename = i
        /\ IsSome(batch_response) => IsNone(Get(batch_response).query)
        /\ \A k \in 1..Len(audit_logs) :
              /\ IsNone(audit_logs[k].query)
              /\ ~audit_logs[k].resultado.has_query
              /\ audit_logs[k].resultado.processing_mode = "summary_only"

\* a whitespace-only query, run returned and audited, a text document completed
C5_Witness ==
    /\ query = Some(T_blank)
    /\ pc = "done"
    /\ Len(audit_logs) = 1
    /\ \E i \in 1..Len(results) :
          /\ results[i].status = "completed"
          /\ results[i].extracted_text = Some(T_ab_cd)

\* C6: with a non-blank query every COMPLETED outcome carries a similarity
\* score in [0, 1], a justification and an excerpt list, whichever similarity
\* path produced the score.
C6_ScoreInUnitInterval ==
    has_query =>
        \A i \in 1..Len(results) :
            results[i].status = "completed" =>
               /\ IsSome(results[i].similarity_score)
               /\ Get(results[i].similarity_score).n >= 0
               /\ Get(results[i].similarity_score).n <= Get(results[i].similarity_score).d
               /\ IsSome(results[i].justification)
               /\ IsSome(results[i].relevant_excerpts)

\* C7: the justification is chosen by exclusive thresholds: score > 0.7 is
\* the highly relevant band, 0.4 < score <= 0.7 the moderately relevant one,
\* score <= 0.4 the low relevance one, and the message embeds the score
\* rounded to two decimal places.
C7_JustificationBands ==
    \A i \in 1..Len(results) :
        IsSome(results[i].similarity_score) =>
           LET sc == Get(results[i].similarity_score)
               j == Get(results[i].justification)
           IN  /\ (10 * sc.n > 7 * sc.d) => j.band = "altamente relevante"
               /\ (10 * sc.n > 4 * sc.d /\ 10 * sc.n <= 7 * sc.d)
                     => j.band = "moderadamente relevante"
               /\ (10 * sc.n <= 4 * sc.d) => j.band = "pouco relevante"
               /\ 2 * (100 * sc.n - j.score * sc.d) <= sc.d
               /\ 2 * (j.score * sc.d - 100 * sc.n) <= sc.d

\* a run with the scores 0.75, 0.70 and 0.40 in the high, moderate and low band
C7_Witness ==
    /\ Len(results) = 3
    /\ results[1].similarity_score = Some(Rat(3, 4))
    /\ Get(results[1].justification) = [band |-> "altamente relevante", score |-> 75]
    /\ results[2].similarity_score = Some(Rat(7, 10))
    /\ Get(results[2].justification) = [band |-> "moderadamente relevante", score |-> 70]
    /\ results[3].similarity_score = Some(Rat(2, 5))
    /\ Get(results[3].justification) = [band |-> "pouco relevante", score |-> 40]

\* C8: a document whose processing throws has an outcome with status FAILED,
\* the exception's message as error_message, no extracted_text, summary,
\* similarity_score, justification or relevant_excerpts, and a processing
\* time that is not negative.
C8_FailedOutcome ==
    \A i \in 1..Len(results) :
        LET f == files[results[i].filename]
        IN  Throws(f) =>
               /\ results[i].status = "failed"
               /\ results[i].error_message =
                     Some(IF ~f.read_ok THEN ReadError ELSE NoContentTypeError)
               /\ IsNone(results[i].extracted_text)
               /\ IsNone(results[i].summary)
               /\ IsNone(results[i].similarity_score)
               /\ IsNone(results[i].justification)
               /\ IsNone(results[i].relevant_excerpts)
               /\ results[i].processing_time >= 0

\* a ranked run holding the outcome of a document whose read raised after
\* taking time, and the outcome of one without content type
C8_Witness ==
    /\ has_query
    /\ \E i \in 1..Len(results) :
          /\ ~files[results[i].filename].read_ok
          /\ results[i].processing_time = 1
    /\ \E i \in 1..Len(results) :
          /\ IsNone(files[results[i].filename].content_type)
          /\ results[i].status = "failed"

\* C9: in every outcome status is COMPLETED or FAILED, extracted_text and
\* summary are present iff COMPLETED, error_message iff FAILED,
\* similarity_score iff the run had a query and the status is COMPLETED, and
\* processing_time is always present.
C9_OutcomeShape ==
    \A i \in 1..Len(results) :
        LET r == results[i]
        IN  /\ r.status \in {"completed", "failed"}
            /\ IsSome(r.extracted_text) <=> r.status = "completed"
            /\ IsSome(r.summary) <=> r.status = "completed"
            /\ IsSome(r.error_message) <=> r.status = "failed"
            /\ IsSome(r.similarity_score) <=> (has_query /\ r.status = "completed")
            /\ r.processing_time \in Int

\* a ranked run with a completed and a failed outcome
C9_Witness ==
    /\ has_query
    /\ pc = "done"
    /\ \E i \in 1..Len(results) : results[i].status = "completed"
    /\ \E i \in 1..Len(results) :
          /\ results[i].status = "failed"
          /\ files[results[i].filename].read_ok

\* a returned batch of one image upload whose bytes no image reader accepts,
\* without query
C10_Case ==
    /\ pc = "done"
    /\ nfiles = 1
    /\ ~has_query
    /\ IsSome(files[1].content_type)
    /\ Get(files[1].content_type) \in ImageTypes
    /\ ~files[1].media.ok

OCRFailure(r) ==
    \/ ~r.content.valid
    \/ /\ r.document_type = "pdf"
       /\ \/ ~r.media.ok
          \/ \E i \in 1..Len(r.media.pages) : ~PageResult(r.media.pages[i]).ok
    \/ /\ r.document_type = "image"
       /\ (~r.media.ok \/ r.media.pages = <<>> \/ ~r.media.pages[1].ocr_ok)
    \/ /\ r.document_type \notin {"pdf", "image"}
       /\ BadByte \in Range(r.content.data)

\* C11: extract_text_from_document never raises to its caller: every call
\* returns an OCRResult, and a call that meets a failure (bad base64,
\* unreadable PDF or image, OCR error, undecodable text) returns empty text
\* and confidence 0.0.
C11_NeverRaises ==
    IsSome(ocr_result) =>
       /\ Get(ocr_result).ok
       /\ OCRFailure(ocr_request) =>
             /\ Get(ocr_result).text = <<>>
             /\ REq(Get(ocr_result).confidence, Zero)

\* a call on text bytes that are not UTF-8 has returned its empty result
C11_Witness ==
    /\ IsSome(ocr_result)
    /\ ocr_request.document_type = "text"
    /\ ocr_request.content.valid
    /\ BadByte \in Range(ocr_request.content.data)
    /\ Get(ocr_result).ok
    /\ Get(ocr_result).text = <<>>

\* the text of a PDF when a page that fails contributes empty text and every
\* other page its own text
PagesDegraded(pages) ==
    JoinWith([i \in 1..Len(pages) |->
                 IF PageResult(pages[i]).ok THEN PageResult(pages[i]).text ELSE <<>>],
             <<"\n", "\n">>)

\* C12: in PDF extraction a page whose OCR or rasterization fails contributes
\* empty text and the text of every other page of the document is still
\* returned.
C12_BadPageDegradesOnlyThatPage ==
    ( /\ IsSome(ocr_result)
      /\ ocr_request.document_type = "pdf"
      /\ ocr_request.content.valid
      /\ ocr_request.media.ok )
    => Get(ocr_result).text = PagesDegraded(ocr_request.media.pages)

\* U+FFFD, what a replacing decode puts for an undecodable byte
ReplacementChar == "U+FFFD"
DecodeReplace(data) ==
    [i \in 1..Len(data) |-> IF data[i] = BadByte THEN ReplacementChar ELSE data[i]]

\* C13: for every byte payload of kind TEXT the OCR service returns the bytes
\* decoded as UTF-8 with undecodable bytes replaced, and confidence 1.0.
C13_TextDecodeReplaces ==
    ( /\ IsSome(ocr_result)
      /\ ocr_request.document_type = "text"
      /\ ocr_request.content.valid )
    => /\ Get(ocr_result).text = DecodeReplace(ocr_request.content.data)
       /\ REq(Get(ocr_result).confidence, One)

\* ------------------------------------------------- audit and error claims
\* the BatchResponse the run builds from its outcomes and counters
ResponseOfRun ==
    [query |-> IF has_query THEN query ELSE None,
     total_documents |-> nfiles,
     successful_documents |-> successful_docs,
     failed_documents |-> failed_docs,
     results |-> results,
     total_processing_time |-> total_processing_time]

\* C14: when write_log raises at the end of a batch run the run does not
\* fail: no error is raised, the handler goes on to return, and what it
\* returns is the BatchResponse built from the run's outcomes, the same as
\* when the write succeeds.
C14_AuditFailureTolerated ==
    /\ (files_given /\ audit_calls # <<>> /\ audit_calls[1].state = "failed") =>
          /\ pc \in {"return", "done"}
          /\ IsNone(raised)
          /\ batch_response = Some(ResponseOfRun)
          /\ pc = "done" => returned = batch_response
    /\ (files_given /\ audit_calls # <<>> /\ audit_calls[1].state = "written") =>
          /\ batch_response = Some(ResponseOfRun)
          /\ pc = "done" => returned = batch_response

\* a run of two documents has returned its response after the write failed
C14_Witness ==
    /\ pc = "done"
    /\ files_given
    /\ Len(audit_calls) = 1
    /\ audit_calls[1].state = "failed"
    /\ audit_logs = <<>>
    /\ IsSome(returned)
    /\ Len(Get(returned).results) = 2
    /\ Get(returned).successful_documents = 1

\* C15: the audit write is fire-and-forget: while write_log has not answered
\* the response of process_batch has already been handed to the caller.
C15_FireAndForget ==
    (files_given /\ audit_calls # <<>>
        /\ audit_calls[Len(audit_calls)].state = "pending")
    => IsSome(returned)

\* C17: a run-level failure of process_batch is surfaced as one HTTP 500
\* carrying the exception message; the audit write carrying the error text
\* is attempted before the error is raised, and the error is raised whether
\* that write succeeds or fails.
C17_RunLevelError ==
    /\ pc \in {"error_wait", "raise"} =>
          /\ IsSome(exc)
          /\ audit_calls # <<>>
          /\ audit_calls[Len(audit_calls)].record.error = exc
    /\ IsSome(raised) =>
          /\ Get(raised).status_code = 500
          /\ Get(raised).detail = Get(exc)
          /\ IsNone(returned)
          /\ audit_calls # <<>>
          /\ audit_calls[Len(audit_calls)].record.error = exc
          /\ audit_calls[Len(audit_calls)].state \in {"written", "failed"}
    /\ (pc = "done" /\ ~files_given) => IsSome(raised)

\* the error has reached the caller although the audit write failed
C17_Witness ==
    /\ pc = "done"
    /\ raised = Some([status_code |-> 500, detail |-> NotIterableError])
    /\ Len(audit_calls) = 1
    /\ audit_calls[1].state = "failed"
    /\ audit_calls[1].record.error = Some(NotIterableError)
    /\ audit_logs = <<>>

CategoryNames ==
    {category_patterns[i].category : i \in 1..Len(category_patterns)} \cup {"geral"}

\* C16: the metadata map of every record handed to the audit sink holds only
\* aggregate counts, flags and labels: the run type with the document counts,
\* the query flag and the processing mode (process_batch), nothing at all
\* (process_batch on a run-level error), or the type with the word count,
\* the character count and category names (analyze_text); no key carries
\* document bytes, extracted text, a summary or per-document outcomes.
C16_AuditMetadataOnly ==
    \A k \in 1..Len(audit_calls) :
       LET md == audit_calls[k].record.resultado
       IN  \/ DOMAIN md = {}
           \/ /\ DOMAIN md = {"type", "total_documents", "successful_documents",
                              "failed_documents", "has_query", "processing_mode"}
              /\ md.type = "batch_processing"
              /\ md.total_documents \in Nat
              /\ md.successful_documents \in Nat
              /\ md.failed_documents \in Nat
              /\ md.has_query \in BOOLEAN
              /\ md.processing_mode \in {"ranking", "summary_only"}
           \/ /\ DOMAIN md = {"type", "word_count", "char_count", "categories"}
              /\ md.type = "text_analysis"
              /\ md.word_count \in Nat
              /\ md.char_count \in Nat
              /\ \A i \in 1..Len(md.categories) : md.categories[i] \in CategoryNames

\* analyze_text has handed the record of a text of four words that matches
\* four categories, three of which are named
C16_Witness ==
    /\ pc = "done"
    /\ text_arg = T_four
    /\ Len(audit_calls) = 1
    /\ audit_calls[1].record.resultado.word_count = 4
    /\ audit_calls[1].record.resultado.categories
          = <<"correspondência", "fatura", "jurídico">>

\* ------------------------------------------------------- ordering claims
\* the outcome recorded for input document i, if any
OutcomesOf(rs, i) == {k \in 1..Len(rs) : rs[k].filename = i}

\* one step of the run seen from its documents
C18_Step ==
    /\ pc = "loop" /\ pc' = "read" =>
          /\ Len(files') = Len(files) + 1
          /\ OutcomesOf(results, Len(files')) = {}
    /\ pc = "read" => pc' \in {"extract", "except"}
    /\ pc = "extract" => pc' \in {"summarize", "except"}
    /\ pc = "summarize" => pc' = IF has_query THEN "score" ELSE "build"
    /\ pc = "score" => has_query /\ pc' = "build"
    /\ pc = "build" =>
          /\ pc' = "loop"
          /\ results' = Append(results, results'[Len(results')])
          /\ results'[Len(results')].status = "completed"
          /\ results'[Len(results')].filename = Len(files)
    /\ pc = "except" =>
          /\ pc' = "loop"
          /\ results' = Append(results, results'[Len(results')])
          /\ results'[Len(results')].status = "failed"
          /\ results'[Len(results')].filename = Len(files)
    /\ files' = files \/ (Len(files') = Len(files) + 1 /\ SubSeq(files', 1, Len(files)) = files)
    /\ \A i \in 1..Len(files) :
          \A k \in OutcomesOf(results, i) :
             /\ Cardinality(OutcomesOf(results', i)) = 1
             /\ \A j \in OutcomesOf(results', i) : results'[j] = results[k]

\* C18: each document goes through extract, summarize and (only with a query)
\* score in that order and ends in exactly one of COMPLETED and FAILED; no
\* step is retried, a failed document is not processed again, and an outcome
\* once recorded keeps its status and fields for the rest of the run, only its
\* position changing in the final sort.
C18_FixedStepsNoRetry == [][C18_Step]_vars

\* a ranked run has ended: the first document failed and the sort moved the
\* third, completed with a positive score, in front of it
C18_Witness ==
    /\ pc = "done"
    /\ has_query
    /\ Len(results) = 3
    /\ results[1].filename = 3
    /\ results[1].status = "completed"
    /\ RGt(Get(results[1].similarity_score), Zero)
    /\ \E k \in 2..3 : results[k].filename = 1 /\ results[k].status = "failed"

DocSteps == {"read", "extract", "summarize", "score", "build", "except"}
AfterLoop == {"respond", "audit", "audit_wait", "return", "done"}

\* C19: documents are processed one at a time in input order: while document
\* i+1 is being processed the outcomes of documents 1..i, and only these, are
\* recorded in input order, and the sort and the audit write happen only
\* when every document has its outcome.
C19_Sequential ==
    files_given =>
       /\ \A i \in 1..Len(files) : files[i].filename = i
       /\ pc \in DocSteps => Len(results) = Len(files) - 1
       /\ pc = "loop" => Len(results) = Len(files)
       /\ pc \in DocSteps \cup {"loop"} =>
             /\ \A i \in 1..Len(results) : results[i].filename = i
             /\ audit_calls = <<>>
       /\ pc \in AfterLoop => Len(files) = nfiles /\ Len(results) = nfiles
       /\ audit_calls # <<>> => pc \in {"audit_wait", "return", "done"}

\* the third document is being read with a query present: the first two have
\* their outcomes, in input order, and nothing has been sorted or audited
C19_Witness ==
    /\ pc = "read"
    /\ has_query
    /\ Len(files) = 3
    /\ Len(results) = 2
    /\ results[1].status = "failed"
    /\ results[2].status = "completed"
    /\ RGt(Get(results[2].similarity_score), Zero)

\* C20: the extraction path follows the declared content type: application/pdf
\* gives the text of the PDF path, an image type the text of the IMAGE path,
\* and any other content type, a missing or an unrecognised one included,
\* gives a COMPLETED outcome whose text is the lenient UTF-8 decode of the
\* bytes.
C20_PathByContentType ==
    \A k \in 1..Len(results) :
       LET f == files[results[k].filename]
       IN  f.read_ok =>
              IF IsSome(f.content_type) /\ Get(f.content_type) = "application/pdf"
              THEN results[k].extracted_text
                     = Some(extract_text_from_document(B64(f.payload), f.media, "pdf").text)
              ELSE IF IsSome(f.content_type) /\ Get(f.content_type) \in ImageTypes
              THEN results[k].extracted_text
                     = Some(extract_text_from_document(B64(f.payload), f.media, "image").text)
              ELSE /\ results[k].status = "completed"
                   /\ results[k].extracted_text = Some(DecodeIgnore(f.payload))

\* ------------------------------------------------------- language claims
\* the fixed table of the language hint, on the lower-cased code
NormalizedLanguage ==
    LET code == IF IsNone(language) THEN <<>> ELSE LowerStr(Get(language))
    IN  IF code \in {T_pt, T_por} THEN "por"
        ELSE IF code \in {T_en, T_eng} THEN "eng"
        ELSE IF code \in {T_es, LowerStr(T_SPA)} THEN "spa"
        ELSE "por"

\* C21: the language of a batch is normalized by the fixed table (pt -> por,
\* en -> eng, es -> spa, por, eng and spa unchanged, in any letter case, every
\* other or missing code -> por) and every OCR call of the run gets that same
\* code.
C21_LanguageNormalized ==
    /\ tess_lang = NormalizedLanguage
    /\ IsSome(ocr_result) => ocr_request.language = NormalizedLanguage

\* a run with language "En" has ended: both its documents went through OCR,
\* the last call with eng
C21_Witness ==
    /\ pc = "done"
    /\ language = Some(T_En)
    /\ Len(files) = 2
    /\ \A i \in 1..2 : IsSome(files[i].content_type) /\ OCRKind(files[i]) # "text"
    /\ ocr_request.language = "eng"

\* ------------------------------------------------------------ NLP claims
Returned(method) == IsSome(nlp_result) /\ Get(nlp_result).method = method

\* the sentence shares a literal word with the query
SharesWord(q, sentence) == WordSet(q) \cap WordSet(sentence) # {}

\* up to MaxExcerpts sentences sharing a word with the query, in original order
FallbackExcerpts(q, sentences) ==
    LET sharing == SelectSeq(sentences, LAMBDA s : SharesWord(q, s))
        kept == SubSeq(sharing, 1, Min2(MaxExcerpts, Len(sharing)))
    IN  [i \in 1..Len(kept) |-> kept[i] \o <<".">>]

\* C22: find_relevant_excerpts returns at most max_n sentences, all scoring
\* above 0.1, the best ones, in descending order of score; and when no
\* sentence scores above 0.1 it returns, in original order, up to max_n
\* sentences that share a literal word with the query.
C22_ExcerptsWithFallback ==
    Returned("find_relevant_excerpts") =>
       LET sentences == excerpt_sentences(text_arg)
           sims == Get(nlp_result).value.similarities
           excerpts == Get(nlp_result).value.excerpts
           above == {i \in 1..Len(sentences) : RGt(sims[i], ExcerptThreshold)}
       IN  /\ Len(excerpts) <= MaxExcerpts
           /\ above # {} =>
                 /\ Len(excerpts) = Min2(MaxExcerpts, Cardinality(above))
                 /\ \E idx \in [1..Len(excerpts) -> above] :
                       /\ \A j \in 1..Len(excerpts) : \A k \in 1..Len(excerpts) :
                             j < k => idx[j] # idx[k] /\ RLe(sims[idx[k]], sims[idx[j]])
                       /\ \A k \in 1..Len(excerpts) :
                             excerpts[k] = sentences[idx[k]] \o <<".">>
                       /\ \A i \in above :
                             (\A k \in 1..Len(excerpts) : idx[k] # i) =>
                                \A k \in 1..Len(excerpts) : RLe(sims[i], sims[idx[k]])
           /\ above = {} => excerpts = FallbackExcerpts(Get(query), sentences)

\* vectorization fails: sklearn cannot be imported, or no text has a token
VectorizationFails ==
    ~vectorizer_ok \/ EmptyVocabulary(<<Get(query)>> \o texts_arg)

\* n / max(a, b, 1), clamped to [0, 1]
ClampedRatio(n, a, b) ==
    LET r == Rat(n, Max2(Max2(a, b), 1))
    IN  IF RLt(One, r) THEN One ELSE IF RLt(r, Zero) THEN Zero ELSE r

WordsInCommon(q, t) == Cardinality(WordSet(q) \cap WordSet(t))

\* C23 as stated: when vectorization fails calculate_similarity returns one
\* score per text, in input order, equal to the size of the word intersection
\* over max(query word count, text word count, 1), clamped to [0, 1].
C23_OverlapByWordCount ==
    (Returned("calculate_similarity") /\ VectorizationFails) =>
       LET value == Get(nlp_result).value
       IN  /\ Len(value) = Len(texts_arg)
           /\ \A i \in 1..Len(texts_arg) :
                 REq(value[i],
                     ClampedRatio(WordsInCommon(Get(query), texts_arg[i]),
                                  Len(SplitWords(Get(query))),
                                  Len(SplitWords(texts_arg[i]))))

\* C23: when vectorization fails calculate_similarity returns one score per
\* text, in input order, equal to the number of distinct lower-cased words
\* common to query and text over max(number of distinct query words, number
\* of distinct text words, 1), within [0, 1]; an empty text scores 0 and an
\* empty list gives an empty list.
C23_OverlapByDistinctWords ==
    (Returned("calculate_similarity") /\ VectorizationFails) =>
       LET value == Get(nlp_result).value
       IN  /\ Len(value) = Len(texts_arg)
           /\ \A i \in 1..Len(texts_arg) :
                 /\ REq(value[i],
                        ClampedRatio(WordsInCommon(Get(query), texts_arg[i]),
                                     Cardinality(WordSet(Get(query))),
                                     Cardinality(WordSet(texts_arg[i]))))
                 /\ RLe(Zero, value[i]) /\ RLe(value[i], One)
                 /\ texts_arg[i] = <<>> => REq(value[i], Zero)

\* without sklearn, the query "ab cd" against "ab cd", "" and "cd ef gh" has
\* given 1, 0 and 1/3
C23_Witness ==
    /\ Returned("calculate_similarity")
    /\ ~vectorizer_ok
    /\ query = Some(T_query)
    /\ texts_arg = <<T_ab_cd, <<>>, T_cd_ef_gh>>
    /\ REq(Get(nlp_result).value[1], One)
    /\ REq(Get(nlp_result).value[2], Zero)
    /\ REq(Get(nlp_result).value[3], Rat(1, 3))

\* C24: extract_keywords returns the (at most k) most frequent lower-case
\* word tokens of three or more letters that are not stop words, by
\* descending frequency, equal frequencies in order of first occurrence.
C24_KeywordsFromLength3 ==
    Returned("extract_keywords") =>
       LET k == Get(nlp_result).value.max_keywords
           keywords == Get(nlp_result).value.keywords
       IN  /\ Len(keywords) <= k
           /\ keywords = most_common(SelectSeq(KeywordTokens(text_arg),
                                               KeptAsKeywordFrom3), k)

\* s cut to the maximal summary length, with the ellipsis marker if it was longer
CutToMax(s) == IF Len(s) > SummaryMax THEN SubSeq(s, 1, SummaryMax) \o <<".", ".", ".">> ELSE s

\* C25: summarize_text returns the original text when it has at most three
\* non-empty sentences, and otherwise its first two sentences and its last
\* one joined by spaces; either is cut to 500 characters plus the ellipsis
\* marker when longer, so the summary is never longer than 503 characters,
\* and the summary of the empty text is empty.
C25_Summary ==
    Returned("summarize_text") =>
       LET sentences == split_sentences(text_arg)
           n == Len(sentences)
           value == Get(nlp_result).value
       IN  /\ n <= 3 => value = CutToMax(text_arg)
           /\ n > 3 => value = CutToMax(sentences[1] \o <<" ">> \o sentences[2]
                                          \o <<" ">> \o sentences[n])
           /\ Len(value) <= SummaryMax + 3
           /\ text_arg = <<>> => value = <<>>

\* a text of five sentences whose first two and last are 502 characters long
\* has been summarized to 500 characters and the marker
C25_Witness ==
    /\ Returned("summarize_text")
    /\ text_arg = T_long_five
    /\ Len(split_sentences(text_arg)) = 5
    /\ Len(Get(nlp_result).value) = SummaryMax + 3
    /\ SubSeq(Get(nlp_result).value, SummaryMax - 1, SummaryMax + 3)
          = <<" ", "b", ".", ".", ".">>

\* the counts analyze_sentiment takes from its text
PositiveCount == Indicators(SplitWords(LowerStr(text_arg)), positive_words)
NegativeCount == Indicators(SplitWords(LowerStr(text_arg)), negative_words)

\* the label follows the larger count, "neutral" on a tie or without matches
LabelByCounts(value) ==
    /\ PositiveCount > NegativeCount => value.sentiment = "positive"
    /\ NegativeCount > PositiveCount => value.sentiment = "negative"
    /\ PositiveCount = NegativeCount => value.sentiment = "neutral"

\* C26 (as stated): the label follows the larger count; the confidence is
\* exactly 0.5 on a tie or without matches and otherwise lies in (0.5, 0.9].
C26_ConfidenceAboveHalf ==
    Returned("analyze_sentiment") =>
       LET value == Get(nlp_result).value
       IN  /\ LabelByCounts(value)
           /\ PositiveCount = NegativeCount => value.confidence = 50
           /\ PositiveCount # NegativeCount =>
                 value.confidence > 50 /\ value.confidence <= 90

\* the distance of the two counts
CountDifference ==
    IF PositiveCount > NegativeCount THEN PositiveCount - NegativeCount
    ELSE NegativeCount - PositiveCount

\* C26 (amended): the label follows the larger count; the confidence, given
\* in hundredths, is exactly 0.5 on a tie or without matches and otherwise is
\* min(0.9, 0.5 + difference / words) rounded to two decimals, which lies in
\* [0.5, 0.9] and is above 0.5 if the difference is more than 0.005 of the
\* word count.
C26_ConfidenceRounded ==
    Returned("analyze_sentiment") =>
       LET value == Get(nlp_result).value
           n == Len(SplitWords(LowerStr(text_arg)))
       IN  /\ LabelByCounts(value)
           /\ value.positive_indicators = PositiveCount
           /\ value.negative_indicators = NegativeCount
           /\ PositiveCount = NegativeCount => value.confidence = 50
           /\ PositiveCount # NegativeCount =>
                 /\ value.confidence >= 50 /\ value.confidence <= 90
                 /\ 200 * CountDifference > n => value.confidence > 50
                 /\ 5 * CountDifference >= 2 * n => value.confidence = 90

\* a positive text of 201 words with one match has been given the label
\* "positive" and the confidence 0.5
C26_Witness ==
    /\ Returned("analyze_sentiment")
    /\ text_arg = T_bom_in_many
    /\ Len(SplitWords(LowerStr(text_arg))) = ManyWords + 1
    /\ PositiveCount = 1 /\ NegativeCount = 0
    /\ Get(nlp_result).value.sentiment = "positive"
    /\ Get(nlp_result).value.confidence = 50

\* --------------------------------------------------------- PDF confidence
\* a PDF request whose document opens and whose pages are all processed
PdfProcessed ==
    /\ IsSome(ocr_result)
    /\ ocr_request.document_type = "pdf"
    /\ ocr_request.content.valid
    /\ ocr_request.media.ok
    /\ \A i \in 1..Len(ocr_request.media.pages) : PageResult(ocr_request.media.pages[i]).ok

\* the page has an embedded text layer that is not blank
HasTextLayer(page) == Strip(page.direct) # <<>>

\* the text a page contributes
PageText(page) == IF HasTextLayer(page) THEN page.direct ELSE page.ocr

RECURSIVE SumOf(_)
SumOf(ns) == IF ns = <<>> THEN 0 ELSE Head(ns) + SumOf(Tail(ns))

\* the confidence is the mean of the page confidences given in thousandths
IsMeanOf(confidence, thousandths) ==
    IF thousandths = <<>> THEN confidence.n = 0
    ELSE confidence.n * 1000 * Len(thousandths) = SumOf(thousandths) * confidence.d

\* page texts in page order, separated by a blank line
PagesJoined(pages) ==
    JoinWith([i \in 1..Len(pages) |-> PageText(pages[i])], <<"\n", "\n">>)

PassedSince(client_ip, cutoff_time, n) ==
    {i \in 1..n : /\ dispatched[i].client_ip = client_ip
                  /\ dispatched[i].status_code # 429
                  /\ dispatched[i].time > cutoff_time}

\* the times of those requests, in the order of their dispatch
TimesOf(indices) ==
    LET n == Cardinality(indices)
        nth(k) == CHOOSE i \in indices : Cardinality({j \in indices : j <= i}) = k
    IN  [k \in 1..n |-> dispatched[nth(k)].time]

RECURSIVE Power(_, _)
Power(b, k) == IF k = 0 THEN 1 ELSE b * Power(b, k - 1)

\* the wrapper has returned or raised
WrapperDone == IsSome(wrapper_outcome)

LegacyDone == legacy /\ pc = "legacy_done"

\* C30: upload_file_legacy runs a batch of one document without query and
\* with the default language, so no outcome carries a similarity score and
\* the returned data has no such field; it answers success true whenever the
\* batch returned its outcome, whatever the status, with null text and
\* summary for a failed document; it raises HTTP 500 only when the batch
\* call raised.
C30_LegacyUpload ==
    legacy =>
       /\ nfiles = 1 /\ query = None /\ tess_lang = "por"
       /\ ocr_request # NoRequest => ocr_request.language = "por"
       /\ \A i \in 1..Len(results) : results[i].similarity_score = None
       /\ IsSome(legacy_raised) => IsSome(raised)
       /\ (LegacyDone /\ IsSome(returned)) =>
             /\ Len(Get(returned).results) = 1
             /\ IsSome(legacy_response)
             /\ Get(legacy_response).success = TRUE
             /\ "similarity_score" \notin DOMAIN Get(legacy_response).data
             /\ Get(legacy_response).data.status = Get(returned).results[1].status
             /\ Get(legacy_response).data.status = "failed" =>
                   /\ Get(legacy_response).data.extracted_text = None
                   /\ Get(legacy_response).data.summary = None

\* a file whose read raised has been answered with success true, status
\* failed and null text and summary
C30_Witness ==
    /\ LegacyDone
    /\ ~files[1].read_ok
    /\ IsSome(legacy_response)
    /\ Get(legacy_response).success = TRUE
    /\ Get(legacy_response).data.status = "failed"
    /\ Get(legacy_response).data.extracted_text = None
    /\ Get(legacy_response).data.summary = None
    /\ Get(returned).failed_documents = 1

====
